---- MODULE Spec2Model ----
(***************************************************************************)
(* Todo Attack web editor: the task-line parser (parseTasks), the line     *)
(* patchers (toggleTaskStatus, addTodaysDate, updateTaskStatusAtLine,      *)
(* updateTaskDatesAtLine, insertTaskUnderHeading) and the Kanban board     *)
(* that is derived from the document and writes back into it.              *)
(*                                                                         *)
(* A line is a sequence of one-character strings; a document is the        *)
(* sequence of lines of the editor model (model.getLinesContent()).        *)
(* Regular expressions of the source are modelled by operators that        *)
(* compute the match the JavaScript engine finds.                          *)
(***************************************************************************)
EXTENDS Integers, Sequences, FiniteSets, TLC

(***************************************************************************)
(* Characters and character classes of the regular expressions             *)
(***************************************************************************)
Digits == {"0", "1", "2", "3", "4", "5", "6", "7", "8", "9"}

HexChars == Digits \cup {"a", "b", "c", "d", "e", "f", "A", "B", "C", "D", "E", "F"}

Letters ==
  {"a", "b", "c", "d", "e", "f", "g", "h", "i", "j", "k", "l", "m",
   "n", "o", "p", "q", "r", "s", "t", "u", "v", "w", "x", "y", "z",
   "A", "B", "C", "D", "E", "F", "G", "H", "I", "J", "K", "L", "M",
   "N", "O", "P", "Q", "R", "S", "T", "U", "V", "W", "X", "Y", "Z"}

\* \w
WordChars == Letters \cup Digits \cup {"_"}

\* \s restricted to the two whitespace characters a line of the model holds
IsWs(c) == c \in {" ", "\t"}

\* null of the JavaScript source: a value no line or field text equals
Null == <<"null">>

Min(a, b) == IF a < b THEN a ELSE b

Max(a, b) == IF a > b THEN a ELSE b

(***************************************************************************)
(* String helpers (String.prototype methods the source calls)              *)
(***************************************************************************)
\* s.slice(i - 1): the suffix starting at 1-based position i
From(s, i) == SubSeq(s, i, Len(s))

\* number of leading whitespace characters: the match of ^\s*
RECURSIVE wsRunFrom(_, _, _)
wsRunFrom(s, i, step) ==
  IF i < 1 \/ i > Len(s) \/ ~IsWs(s[i]) THEN 0 ELSE 1 + wsRunFrom(s, i + step, step)

LeadWs(s) == wsRunFrom(s, 1, 1)

\* number of trailing whitespace characters: the match of \s*$
TrailWs(s) == wsRunFrom(s, Len(s), -1)

TrimLeft(s) == From(s, LeadWs(s) + 1)

TrimRight(s) == SubSeq(s, 1, Len(s) - TrailWs(s))

\* String.prototype.trim
Trim(s) == TrimLeft(TrimRight(s))

\* does pattern p occur in s at position i
OccursAt(s, p, i) ==
  /\ i >= 1
  /\ i + Len(p) - 1 <= Len(s)
  /\ SubSeq(s, i, i + Len(p) - 1) = p

\* String.prototype.includes
Includes(s, p) == \E i \in 1..(Len(s) + 1) : OccursAt(s, p, i)

\* String.prototype.endsWith(' ')
EndsWithSpace(s) == Len(s) > 0 /\ s[Len(s)] = " "

\* Array.prototype.join(' ') over a sequence of strings
RECURSIVE JoinSp(_)
JoinSp(ss) ==
  IF Len(ss) = 0 THEN <<>>
  ELSE IF Len(ss) = 1 THEN ss[1]
  ELSE ss[1] \o <<" ">> \o JoinSp(Tail(ss))

\* s.split(/\s+/).filter(Boolean): the maximal runs of non-whitespace
RECURSIVE SplitWs(_)
SplitWs(s) ==
  LET t == TrimLeft(s)
      n == IF \E i \in 1..Len(t) : IsWs(t[i])
           THEN (CHOOSE i \in 1..Len(t) : IsWs(t[i]) /\ \A j \in 1..(i - 1) : ~IsWs(t[j])) - 1
           ELSE Len(t)
  IN IF Len(t) = 0 THEN <<>>
     ELSE <<SubSeq(t, 1, n)>> \o SplitWs(From(t, n + 1))

(***************************************************************************)
(* Line classifier: the heading and task regular expressions of parseTasks *)
(***************************************************************************)
DefaultColor == <<"#", "1", "9", "7", "6", "D", "2">>

\* number of leading '#' characters
RECURSIVE hashRunFrom(_, _)
hashRunFrom(s, i) ==
  IF i > Len(s) \/ s[i] # "#" THEN 0 ELSE 1 + hashRunFrom(s, i + 1)

HashRun(s) == hashRunFrom(s, 1)

\* #[0-9A-Fa-f]{6}
IsHexColor(s) ==
  /\ Len(s) = 7
  /\ s[1] = "#"
  /\ \A i \in 2..7 : s[i] \in HexChars

\* headingLevel with runs of more than three '#' taken as level 3
headingLevelLongRun(line) ==
  LET n == HashRun(line)
  IN IF n >= 1 /\ Len(line) > n /\ IsWs(line[n + 1]) THEN Min(n, 3) ELSE 0

\* /^(#{1,3})\s/ : the heading test of insertTaskUnderHeading; 0 when the
\* line does not match, else the length of group 1
headingLevel(line) ==
  LET n == HashRun(line)
  IN IF n \in 1..3 /\ Len(line) > n /\ IsWs(line[n + 1]) THEN n ELSE 0

\* /^(#{1,3})\s+(.*?)(?:\s+(#[0-9A-Fa-f]{6}))?\s*$/ : the first \s+ takes the
\* whole whitespace run (some length of the lazy group 2 then always
\* succeeds), group 2 is the shortest text after which the rest is either
\* whitespace + color + optional whitespace, or only whitespace.
headingMatch(line) ==
  LET n == headingLevel(line)
      rest == TrimRight(TrimLeft(From(line, n + 1)))
      L == Len(rest)
      hasColor == /\ L >= 9
                  /\ IsWs(rest[L - 7])
                  /\ IsHexColor(SubSeq(rest, L - 6, L))
  IN IF n = 0 THEN [ok |-> FALSE, level |-> 0, title |-> <<>>, color |-> Null]
     ELSE IF hasColor
     THEN [ok |-> TRUE, level |-> n,
           title |-> TrimRight(SubSeq(rest, 1, L - 7)),
           color |-> SubSeq(rest, L - 6, L)]
     ELSE [ok |-> TRUE, level |-> n, title |-> rest, color |-> Null]

Bullets == {"-", "*", "+"}

StatusChars == {" ", "x", "/"}

\* /^(\s*)[-*+]\s*\[([ x/])\]\s*(.*)$/ : position of '[' is b + 1
taskMatch(line) ==
  LET i == LeadWs(line)
      b == i + 1 + LeadWs(From(line, i + 2))
      ok == /\ Len(line) >= i + 1
            /\ line[i + 1] \in Bullets
            /\ Len(line) >= b + 3
            /\ line[b + 1] = "["
            /\ line[b + 2] \in StatusChars
            /\ line[b + 3] = "]"
  IN IF ok
     THEN [ok |-> TRUE, indent |-> SubSeq(line, 1, i), statusCh |-> line[b + 2],
           text |-> TrimLeft(From(line, b + 4))]
     ELSE [ok |-> FALSE, indent |-> <<>>, statusCh |-> " ", text |-> <<>>]

(***************************************************************************)
(* Inline tokens of a task body                                            *)
(***************************************************************************)
IsTagChar(c) == c \in WordChars \/ c = "-"

\* text.match(/\+[\w-]+/g) || [] : all non-overlapping matches, left to right
RECURSIVE tagRunFrom(_, _)
tagRunFrom(s, i) ==
  IF i > Len(s) \/ ~IsTagChar(s[i]) THEN 0 ELSE 1 + tagRunFrom(s, i + 1)

RECURSIVE tagMatchesFrom(_, _)
tagMatchesFrom(s, i) ==
  IF i >= Len(s) THEN <<>>
  ELSE IF s[i] = "+" /\ IsTagChar(s[i + 1])
  THEN LET n == tagRunFrom(s, i + 1)
       IN <<SubSeq(s, i, i + n)>> \o tagMatchesFrom(s, i + n + 1)
  ELSE tagMatchesFrom(s, i + 1)

tagMatches(s) == tagMatchesFrom(s, 1)

\* \d{4}-\d{2}-\d{2} at position i
IsDateAt(s, i) ==
  /\ i >= 1
  /\ i + 9 <= Len(s)
  /\ \A j \in {0, 1, 2, 3, 5, 6, 8, 9} : s[i + j] \in Digits
  /\ s[i + 4] = "-"
  /\ s[i + 7] = "-"

\* positions where /name:\d{4}-\d{2}-\d{2}/ matches (name is "due" or "start")
fieldMatches(s, name) ==
  {i \in 1..Len(s) :
     /\ s[i] = name[1]
     /\ OccursAt(s, name \o <<":">>, i)
     /\ IsDateAt(s, i + Len(name) + 1)}

\* positions where /\bname:\d{4}-\d{2}-\d{2}\b/ matches: the pattern begins
\* and ends with a word character, so \b asks for a non-word neighbour
boundedFieldMatches(s, name) ==
  {i \in fieldMatches(s, name) :
     /\ i = 1 \/ s[i - 1] \notin WordChars
     /\ LET e == i + Len(name) + 10
        IN e = Len(s) \/ s[e + 1] \notin WordChars}

SetMin(S) == CHOOSE x \in S : \A y \in S : x <= y

\* fieldOf with the patterns lacking their \b
fieldOfUnbounded(s, name) ==
  LET ms == fieldMatches(s, name)
  IN IF ms = {} THEN Null
     ELSE SubSeq(s, SetMin(ms), SetMin(ms) + Len(name) + 10)

\* (text.match(/\bname:\d{4}-\d{2}-\d{2}\b/) || [null])[0]
fieldOf(s, name) ==
  LET ms == boundedFieldMatches(s, name)
  IN IF ms = {} THEN Null
     ELSE SubSeq(s, SetMin(ms), SetMin(ms) + Len(name) + 10)

\* (text.match(/\(([abc])\)/) || [null, null])[1]
prioOf(s) ==
  LET ms == {i \in 1..(Len(s) - 2) :
               s[i] = "(" /\ s[i + 1] \in {"a", "b", "c"} /\ s[i + 2] = ")"}
  IN IF ms = {} THEN Null ELSE <<s[SetMin(ms) + 1]>>

(***************************************************************************)
(* parseTasks: one pass over the lines, carrying lastHeading and lastColor *)
(***************************************************************************)
\* statusOfChar without the 'inprogress' branch
statusOfCharTwoStates(ch) ==
  IF ch = "x" THEN "done" ELSE "backlog"

statusOfChar(ch) ==
  IF ch = "/" THEN "inprogress" ELSE IF ch = "x" THEN "done" ELSE "backlog"

\* headingStep with a colorless heading resetting the color to the default
headingStepResetColor(h, st) ==
  [heading |-> Trim(h.title),
   color |-> IF h.color # Null THEN h.color ELSE DefaultColor]

\* headingStep with the heading tracked only for headings that carry a color
headingStepColoredOnly(h, st) ==
  IF h.color # Null THEN [heading |-> Trim(h.title), color |-> h.color] ELSE st

\* the heading branch of the loop body: the trackers after a heading line
headingStep(h, st) ==
  [heading |-> Trim(h.title),
   color |-> IF h.color # Null THEN h.color ELSE st.color]

\* the task branch of the loop body: the record pushed for line i
taskRecord(i, m, st) ==
  [lineNumber |-> i,
   status |-> statusOfChar(m.statusCh),
   text |-> m.text,
   heading |-> st.heading,
   color |-> st.color,
   tags |-> JoinSp(tagMatches(m.text)),
   due |-> fieldOf(m.text, <<"d", "u", "e">>),
   start |-> fieldOf(m.text, <<"s", "t", "a", "r", "t">>),
   priority |-> prioOf(m.text)]

RECURSIVE parseFrom(_, _, _, _)
parseFrom(lines, i, st, tasks) ==
  IF i > Len(lines) THEN tasks
  ELSE LET h == headingMatch(lines[i])
           m == taskMatch(lines[i])
       IN IF h.ok THEN parseFrom(lines, i + 1, headingStep(h, st), tasks)
          ELSE IF m.ok
          THEN parseFrom(lines, i + 1, st, Append(tasks, taskRecord(i, m, st)))
          ELSE parseFrom(lines, i + 1, st, tasks)

parseTasks(lines) ==
  parseFrom(lines, 1, [heading |-> Null, color |-> DefaultColor], <<>>)

(***************************************************************************)
(* The editor model: model.pushEditOperations / editor.executeEdits with   *)
(* one edit.  The editor validates the range first: a line number past     *)
(* the last line becomes the end of the last line, a column past the end   *)
(* of its line becomes the end of that line.  The text is given as the     *)
(* lines it splits into at '\n'.                                           *)
(***************************************************************************)
validatePosition(lines, ln, col) ==
  IF ln < 1 THEN [line |-> 1, col |-> 1]
  ELSE IF ln > Len(lines)
  THEN [line |-> Len(lines), col |-> Len(lines[Len(lines)]) + 1]
  ELSE [line |-> ln, col |-> Max(1, Min(col, Len(lines[ln]) + 1))]

pushEditOperations(lines, sl, sc, el, ec, textLines) ==
  LET a == validatePosition(lines, sl, sc)
      b == validatePosition(lines, el, ec)
      pre == SubSeq(lines[a.line], 1, a.col - 1)
      post == From(lines[b.line], b.col)
      n == Len(textLines)
      mid == IF n = 1 THEN <<pre \o textLines[1] \o post>>
             ELSE <<pre \o textLines[1]>> \o SubSeq(textLines, 2, n - 1)
                  \o <<textLines[n] \o post>>
  IN SubSeq(lines, 1, a.line - 1) \o mid \o From(lines, b.line + 1)

\* the edit every single-line patcher issues: the range (ln, 1)-(ln, length + 1)
\* replaced by newLine
replaceLine(lines, ln, newLine) ==
  pushEditOperations(lines, ln, 1, ln, Len(lines[ln]) + 1, <<newLine>>)

(***************************************************************************)
(* Line patchers                                                           *)
(***************************************************************************)
\* /^(\s*[bullets]\s*\[)([ x/])(\])/ : the position of group 2, or 0
checkboxPos(line, bullets) ==
  LET i == LeadWs(line)
      b == i + 1 + LeadWs(From(line, i + 2))
  IN IF /\ Len(line) >= i + 1
        /\ line[i + 1] \in bullets
        /\ Len(line) >= b + 3
        /\ line[b + 1] = "["
        /\ line[b + 2] \in StatusChars
        /\ line[b + 3] = "]"
     THEN b + 2 ELSE 0

\* the replacer callback of toggleTaskStatus
nextStatusChar(ch) ==
  IF ch = " " THEN "/" ELSE IF ch = "/" THEN "x" ELSE " "

\* toggleTaskStatus of the Monaco editor: the new text of the cursor line
toggleTaskStatus(line) ==
  LET p == checkboxPos(line, {"-"})
  IN IF p = 0 THEN line ELSE [line EXCEPT ![p] = nextStatusChar(line[p])]

\* /^(\s*)-\s*\[ inner \]/ of the Ace editor's toggleTaskStatus, where inner
\* is \s* ("ws"), \/ or x: the length of the match, or 0
aceBoxEnd(line, inner) ==
  LET i == LeadWs(line)
      b == i + 1 + LeadWs(From(line, i + 2))
      w == LeadWs(From(line, b + 2))
      e == IF inner = "ws" THEN b + 2 + w ELSE b + 3
  IN IF /\ Len(line) >= i + 1
        /\ line[i + 1] = "-"
        /\ Len(line) >= e
        /\ line[b + 1] = "["
        /\ inner = "ws" \/ line[b + 2] = inner
        /\ line[e] = "]"
     THEN e ELSE 0

\* toggleTaskStatus of the Ace editor (app.js): the new text of the cursor line
toggleTaskStatusAce(line) ==
  LET indent == SubSeq(line, 1, LeadWs(line))
      rest == TrimLeft(line)
      content == IF Len(rest) > 0 /\ rest[1] = "-" THEN TrimLeft(Tail(rest)) ELSE rest
  IN IF aceBoxEnd(line, "ws") > 0
     THEN indent \o <<"-", " ", "[", "/", "]">> \o From(line, aceBoxEnd(line, "ws") + 1)
     ELSE IF aceBoxEnd(line, "/") > 0
     THEN indent \o <<"-", " ", "[", "x", "]">> \o From(line, aceBoxEnd(line, "/") + 1)
     ELSE IF aceBoxEnd(line, "x") > 0
     THEN indent \o <<"-", " ", "[", " ", "]">> \o From(line, aceBoxEnd(line, "x") + 1)
     ELSE indent \o <<"-", " ", "[", " ", "]", " ">> \o content

DueName == <<"d", "u", "e">>

StartName == <<"s", "t", "a", "r", "t">>

\* line.replace(/name:\d{4}-\d{2}-\d{2}/, `name:${d}`) : the first match
replaceField(line, name, d) ==
  LET ms == fieldMatches(line, name)
      i == SetMin(ms)
      k == Len(name) + 1
  IN IF ms = {} THEN line
     ELSE SubSeq(line, 1, i + k - 1) \o d \o From(line, i + k + 10)

\* addTodaysDate of the Monaco editor: the new text of the cursor line
addTodaysDate(line, today) ==
  IF Includes(line, DueName \o <<":">>)
  THEN replaceField(line, DueName, today)
  ELSE line \o (IF EndsWithSpace(line) THEN <<>> ELSE <<" ">>) \o DueName \o <<":">> \o today

\* addTodaysDate of the Ace editor (app.js)
addTodaysDateAce(line, today) ==
  IF Includes(line, DueName \o <<":">>)
  THEN replaceField(line, DueName, today)
  ELSE line \o <<" ">> \o DueName \o <<":">> \o today

\* one "Replace or add" step of updateTaskDatesAtLine
setDatedField(line, name, d) ==
  IF boundedFieldMatches(line, name) # {}
  THEN replaceField(line, name, d)
  ELSE line \o (IF EndsWithSpace(line) THEN <<>> ELSE <<" ">>) \o name \o <<":">> \o d

\* updateTaskDatesAtLine: the new text of the line, given the formatted dates
updateTaskDatesAtLine(line, s, e) ==
  setDatedField(setDatedField(line, StartName, s), DueName, e)

\* charOfStatus with the 'done' entry missing from the map
charOfStatusNoDone(targetStatus) ==
  IF targetStatus = "inprogress" THEN "/" ELSE " "

\* mapped[targetStatus] || ' '
charOfStatus(targetStatus) ==
  IF targetStatus = "inprogress" THEN "/"
  ELSE IF targetStatus = "done" THEN "x" ELSE " "

\* statusLine for the bullet '-' only
statusLineDashOnly(line, targetStatus) ==
  LET p == checkboxPos(line, {"-"})
  IN IF p = 0 THEN line ELSE [line EXCEPT ![p] = charOfStatus(targetStatus)]

\* the new line text updateTaskStatusAtLine computes
statusLine(line, targetStatus) ==
  LET p == checkboxPos(line, Bullets)
  IN IF p = 0 THEN line ELSE [line EXCEPT ![p] = charOfStatus(targetStatus)]

\* updateTaskStatusAtLine without the newLine !== line test
updateTaskStatusAtLineAlways(lines, lineNumber, targetStatus) ==
  [lines |-> replaceLine(lines, lineNumber, statusLine(lines[lineNumber], targetStatus)),
   edits |-> 1]

\* updateTaskStatusAtLine: the document afterwards and the number of edits pushed
updateTaskStatusAtLine(lines, lineNumber, targetStatus) ==
  LET newLine == statusLine(lines[lineNumber], targetStatus)
  IN IF newLine # lines[lineNumber]
     THEN [lines |-> replaceLine(lines, lineNumber, newLine), edits |-> 1]
     ELSE [lines |-> lines, edits |-> 0]

\* collectHeadings: the line numbers offered by the new-task dialog
collectHeadings(lines) == {i \in 1..Len(lines) : headingMatch(lines[i]).ok}

\* the loop of insertTaskUnderHeading: insertAt, scanning from line ln
RECURSIVE insertionPoint(_, _, _, _)
insertionPoint(lines, ln, level, insertAt) ==
  IF ln > Len(lines) THEN insertAt
  ELSE LET h == headingLevel(lines[ln])
       IN IF h # 0 /\ h <= level THEN insertAt
          ELSE insertionPoint(lines, ln + 1, level, ln + 1)

\* pieces.join(' ') : meta.start and meta.due are "" (<<>>) when not given
newTaskLineText(text, start, due) ==
  JoinSp(<<<<"-", " ", "[", " ", "]">>, text>>
         \o (IF start # <<>> THEN <<StartName \o <<":">> \o start>> ELSE <<>>)
         \o (IF due # <<>> THEN <<DueName \o <<":">> \o due>> ELSE <<>>))

insertTaskUnderHeading(lines, headingLine, text, start, due) ==
  LET m == headingLevel(lines[headingLine])
      level == IF m # 0 THEN m ELSE 1
      insertAt == insertionPoint(lines, headingLine + 1, level, headingLine + 1)
  IN pushEditOperations(lines, insertAt, 1, insertAt, 1,
                        <<newTaskLineText(text, start, due), <<>>>>)

(***************************************************************************)
(* Kanban board                                                            *)
(***************************************************************************)
\* String(n) for a line number
RECURSIVE numToString(_)
numToString(n) ==
  LET d == <<"0", "1", "2", "3", "4", "5", "6", "7", "8", "9">>
  IN IF n < 10 THEN <<d[n + 1]>> ELSE numToString(n \div 10) \o <<d[(n % 10) + 1]>>

digitValue(c) ==
  CHOOSE v \in 0..9 : <<c>> = numToString(v)

\* parseInt(s, 10) for a string of digits; NaN is modelled as 0, which the
\* drop handler rejects the same way (!ln)
RECURSIVE parseIntFrom(_, _)
parseIntFrom(s, acc) ==
  IF Len(s) = 0 \/ s[1] \notin Digits THEN acc
  ELSE parseIntFrom(Tail(s), acc * 10 + digitValue(s[1]))

parseInt(s) == parseIntFrom(s, 0)

\* s.replace(/^\+/, '')
stripPlus(s) == IF Len(s) > 0 /\ s[1] = "+" THEN Tail(s) ELSE s

\* (t.tags||'').split(/\s+/).filter(Boolean).map(s=>s.replace(/^\+/, ''))
tagList(t) ==
  LET parts == SplitWs(t.tags)
  IN {stripPlus(parts[i]) : i \in 1..Len(parts)}

\* the three filter steps of renderKanban: does task t stay
statusFilter(t, f) == f.statuses = {} \/ t.status \in f.statuses

\* priorityFilter without the test that the set is non-empty
priorityFilterNoLength(t, f) ==
  (IF t.priority = Null THEN <<>> ELSE t.priority) \in f.priorities

priorityFilter(t, f) ==
  f.priorities = {} \/ (IF t.priority = Null THEN <<>> ELSE t.priority) \in f.priorities

\* tagFilter with some() in place of every()
tagFilterSome(t, f) ==
  Len(f.tags) = 0 \/ \E i \in 1..Len(f.tags) : stripPlus(f.tags[i]) \in tagList(t)

tagFilter(t, f) ==
  Len(f.tags) = 0 \/ \A i \in 1..Len(f.tags) : stripPlus(f.tags[i]) \in tagList(t)

\* the card built for task t: dataset.lineNumber and the drop zone it is put in
cardOf(t) ==
  [lineNumber |-> numToString(t.lineNumber),
   zone |-> IF t.status \in {"backlog", "inprogress", "done"} THEN t.status ELSE "backlog",
   task |-> t]

\* renderKanban: the cards of the board, in document order
renderKanban(lines, f) ==
  LET kept == SelectSeq(parseTasks(lines),
                        LAMBDA t : statusFilter(t, f) /\ priorityFilter(t, f) /\ tagFilter(t, f))
  IN [i \in 1..Len(kept) |-> cardOf(kept[i])]

NoFilters == [tags |-> <<>>, priorities |-> {}, statuses |-> {}]

\* one drop listener of a zone: updateTaskStatusAtLine, then renderKanban.
\* Every renderKanban attaches one more drop listener to each zone, so a drop
\* runs this n times, n being the number of renders so far.
RECURSIVE dropHandlers(_, _, _, _, _)
dropHandlers(lines, ln, targetStatus, n, edits) ==
  IF n = 0 THEN [lines |-> lines, edits |-> edits]
  ELSE LET r == updateTaskStatusAtLine(lines, ln, targetStatus)
       IN dropHandlers(r.lines, ln, targetStatus, n - 1, edits + r.edits)


(***************************************************************************)
(* Bounds and input pools                                                  *)
(***************************************************************************)
\* longest document of the Kanban specification
MaxKanbanLines == 2

\* most drop listeners a zone has accumulated when a card is dropped
MaxDropListeners == 2

\* longest document of the parser specification
MaxParseLines == 4

AllDocs(pool, n) == UNION {[1..k -> pool] : k \in 1..n}

\* lines of the Kanban documents: a heading (no task), a task with one tag and
\* a priority, an indented task with another bullet, two tags and no priority
KanbanLines ==
  {<<"#", " ", "W", " ", "#", "F", "F", "0", "0", "0", "0">>,
   <<"-", " ", "[", " ", "]", " ", "a", " ", "+", "u", "i", " ", "(", "a", ")">>,
   <<" ", " ", "*", "\t", "[", "/", "]", " ", "b", " ", "+", "u", "i", " ", "+", "a", "p", "i">>}

StatusNames == {"backlog", "inprogress", "done"}

\* filter settings the filter dialog can produce (kfApply)
FilterPool ==
  {NoFilters,
   [tags |-> <<>>, priorities |-> {<<"a">>}, statuses |-> {}],
   [tags |-> <<<<"u", "i">>, <<"a", "p", "i">>>>, priorities |-> {}, statuses |-> {}],
   [tags |-> <<<<"+", "u", "i">>>>, priorities |-> {<<"a">>, <<"b">>}, statuses |-> {"backlog", "done"}]}

\* lines of the parser documents: headings of each level with and without a
\* color, a line of four '#', a heading that is only a color, a task, a text line
ParseLines ==
  {<<"#", " ", "A">>,
   <<"#", "#", " ", "B", " ", "#", "F", "F", "0", "0", "0", "0">>,
   <<"#", "#", "#", " ", "C", " ", " ", "#", "0", "0", "f", "f", "0", "0", " ">>,
   <<"#", "#", "#", "#", " ", "D", " ", "#", "0", "0", "0", "0", "F", "F">>,
   <<"#", " ", " ", "#", "A", "B", "C", "D", "E", "F">>,
   <<"-", " ", "[", " ", "]", " ", "t">>,
   <<"x">>}

(***************************************************************************)
(* State                                                                   *)
(***************************************************************************)
VARIABLES
  doc,            \* editor.getModel().getLinesContent()
  kanbanDisplay,  \* style.display of the #kanban element: "", "none" or "block"
  kanbanFilters,  \* the global kanbanFilters
  cards,          \* the cards in the drop zones, in document order
  tasks,          \* the value the last parseTasks() call returned
  gantt,          \* the #gantt element: whether it shows, and the chart
                  \* the last renderGantt() call drew into #ganttBoard, with
                  \* the Date startWindow of its listeners (instant and zone);
                  \* dx is history, the displacement of the last drag
  network,        \* the fetch requests and responses in flight
  server,         \* the gateway's directory: todo.md, its backups, the clock
  prev,           \* history: the document before the last operation
  op              \* history: the last operation and its inputs

vars ==
  <<doc, kanbanDisplay, kanbanFilters, cards, tasks, gantt, network, server,
    prev, op>>

Op(name, line, status, text, start, due, edits) ==
  [name |-> name, line |-> line, status |-> status, text |-> text,
   start |-> start, due |-> due, edits |-> edits]

NoOp == Op("none", 0, "", <<>>, <<>>, <<>>, 0)

\* toggleKanbanView's test "showingKanban"
showingKanban == kanbanDisplay # "none" /\ kanbanDisplay # ""

\* the onDidChangeContent listener: re-render the board unless display is 'none'
onDidChangeContent(lines) ==
  IF kanbanDisplay # "none" THEN renderKanban(lines, kanbanFilters) ELSE cards

\* #gantt before the first toggleGanttView: not showing, #ganttBoard empty
NoGantt ==
  [showing |-> FALSE, bars |-> <<>>, startWindow |-> 0, zone |-> 0, header |-> <<>>,
   dx |-> 0]

\* the directory after the first load: handleLoad has created an empty
\* todo.md, there is no backup; log is history, the saves handled so far
NewServer == [file |-> <<>>, backups |-> {}, clock |-> 0, log |-> <<>>]

InitCommon ==
  /\ kanbanDisplay \in {"", "none"}
  /\ kanbanFilters = NoFilters
  /\ cards = <<>>
  /\ tasks = <<>>
  /\ gantt = NoGantt
  /\ network = {}
  /\ server = NewServer
  /\ prev = doc
  /\ op = NoOp

(***************************************************************************)
(* Parser specification: parseTasks applied to every bounded document      *)
(***************************************************************************)
InitParse ==
  /\ doc \in AllDocs(ParseLines, MaxParseLines)
  /\ InitCommon

RunParseTasks ==
  /\ tasks' = parseTasks(doc)
  /\ op' = Op("parseTasks", 0, "", <<>>, <<>>, <<>>, 0)
  /\ prev' = doc
  /\ UNCHANGED <<doc, kanbanDisplay, kanbanFilters, cards, gantt,
               network, server>>

NextParse == RunParseTasks

SpecParse == InitParse /\ [][NextParse]_vars

(***************************************************************************)
(* Kanban specification: the board over a document, drops and filters      *)
(***************************************************************************)
Init ==
  /\ doc \in AllDocs(KanbanLines, MaxKanbanLines)
  /\ InitCommon

\* toggleKanbanView
ToggleKanbanView ==
  /\ IF showingKanban
     THEN kanbanDisplay' = "none" /\ UNCHANGED cards
     ELSE kanbanDisplay' = "block" /\ cards' = renderKanban(doc, kanbanFilters)
  /\ op' = NoOp
  /\ prev' = doc
  /\ UNCHANGED <<doc, kanbanFilters, tasks, gantt, network, server>>

\* the drop listeners of a zone, for a card dragged from the visible board
KanbanDrop ==
  /\ showingKanban
  /\ \E c \in 1..Len(cards), zone \in StatusNames, n \in {1, MaxDropListeners} :
       LET ln == parseInt(cards[c].lineNumber)
           r == dropHandlers(doc, ln, zone, n, 0)
       IN /\ ln # 0
          /\ doc' = r.lines
          /\ cards' = renderKanban(r.lines, kanbanFilters)
          /\ op' = Op("drop", ln, zone, <<>>, <<>>, <<>>, r.edits)
  /\ prev' = doc
  /\ UNCHANGED <<kanbanDisplay, kanbanFilters, tasks, gantt, network, server>>

\* the Apply button of the filter dialog (kfApply)
ApplyKanbanFilter ==
  /\ \E f \in FilterPool :
       /\ kanbanFilters' = f
       /\ cards' = renderKanban(doc, f)
  /\ op' = NoOp
  /\ prev' = doc
  /\ UNCHANGED <<doc, kanbanDisplay, tasks, gantt, network, server>>

\* the Clear button of the filter dialog (kfClear)
ClearKanbanFilter ==
  /\ kanbanFilters' = NoFilters
  /\ cards' = renderKanban(doc, NoFilters)
  /\ op' = NoOp
  /\ prev' = doc
  /\ UNCHANGED <<doc, kanbanDisplay, tasks, gantt, network, server>>

\* Ctrl+Shift+T in the editor, the cursor on line ln (the editor is hidden
\* while the board shows)
EditorToggleTaskStatus ==
  /\ ~showingKanban
  /\ \E ln \in 1..Len(doc) :
       /\ doc' = replaceLine(doc, ln, toggleTaskStatus(doc[ln]))
       /\ op' = Op("toggleTaskStatus", ln, "", <<>>, <<>>, <<>>, 1)
  /\ cards' = onDidChangeContent(doc')
  /\ prev' = doc
  /\ UNCHANGED <<kanbanDisplay, kanbanFilters, tasks, gantt, network, server>>

Next ==
  \/ ToggleKanbanView
  \/ KanbanDrop
  \/ ApplyKanbanFilter
  \/ ClearKanbanFilter
  \/ EditorToggleTaskStatus

Spec == Init /\ [][Next]_vars

(***************************************************************************)
(* Vocabulary of the properties                                            *)
(***************************************************************************)
SetMax(S) == CHOOSE x \in S : \A y \in S : x >= y

\* index of the first occurrence of character c in s, 0 when there is none
FirstIndex(s, c) ==
  IF \E i \in 1..Len(s) : s[i] = c
  THEN SetMin({i \in 1..Len(s) : s[i] = c})
  ELSE 0

\* the checkbox character of a task line: the one after the first '['
CheckboxIndex(line) == FirstIndex(line, "[") + 1

\* the column a checkbox character stands for
ColumnOfChar(ch) ==
  CASE ch = " " -> "backlog"
    [] ch = "/" -> "inprogress"
    [] ch = "x" -> "done"
    [] OTHER -> "none"

\* the checkbox character of a column
CharOfColumn(column) ==
  CASE column = "backlog" -> " "
    [] column = "inprogress" -> "/"
    [] column = "done" -> "x"

\* a heading line: one to three '#', then whitespace
IsHeadingLine(line) ==
  \E n \in 1..3 :
    /\ Len(line) > n
    /\ \A i \in 1..n : line[i] = "#"
    /\ IsWs(line[n + 1])

\* what follows the '#' markers of a heading line, without surrounding whitespace
HeadingBody(line) == Trim(From(line, HashRun(line) + 1))

\* a heading carries an explicit color when its body ends in whitespace and #RRGGBB
CarriesColor(line) ==
  LET b == HeadingBody(line)
  IN /\ IsHeadingLine(line)
     /\ Len(b) > 8
     /\ IsWs(b[Len(b) - 7])
     /\ IsHexColor(From(b, Len(b) - 6))

ColorOfHeading(line) == From(HeadingBody(line), Len(HeadingBody(line)) - 6)

\* the title: the body without the trailing color
TitleOfHeading(line) ==
  LET b == HeadingBody(line)
  IN IF CarriesColor(line) THEN Trim(SubSeq(b, 1, Len(b) - 7)) ELSE b

\* the tasks of the cards on the board
CardTasks == [i \in 1..Len(cards) |-> cards[i].task]

\* the names of the tags of a task text: each '+' followed by tag characters,
\* up to the first character that is none
TagNames(text) ==
  {SubSeq(text, p[1] + 1, p[2]) :
     p \in {r \in {i \in 1..Len(text) : text[i] = "+"} \X (1..Len(text)) :
              /\ r[2] > r[1]
              /\ \A j \in (r[1] + 1)..r[2] : IsTagChar(text[j])
              /\ r[2] = Len(text) \/ ~IsTagChar(text[r[2] + 1])}}

(***************************************************************************)
(* Properties                                                              *)
(***************************************************************************)
\* C2: dropping a card onto the column that matches the current status of its
\* task leaves the whole document identical and pushes no edit.
C2_DropOnOwnColumnIsNoOp ==
  (op.name = "drop" /\ ColumnOfChar(prev[op.line][CheckboxIndex(prev[op.line])]) = op.status)
    => (doc = prev /\ op.edits = 0)

C2_Witness ==
  /\ op.name = "drop"
  /\ Len(prev) = 2
  /\ ColumnOfChar(prev[op.line][CheckboxIndex(prev[op.line])]) = op.status
  /\ op.status = "done"

\* C3: a drop of the card of line n onto column S rewrites only the checkbox
\* character of line n to the character of S: same line count, every other
\* line and every other character of line n unchanged.
C3_DropRewritesOnlyCheckbox ==
  op.name = "drop" =>
    /\ Len(doc) = Len(prev)
    /\ \A i \in 1..Len(prev) : i # op.line => doc[i] = prev[i]
    /\ doc[op.line] =
         [prev[op.line] EXCEPT ![CheckboxIndex(prev[op.line])] = CharOfColumn(op.status)]

C3_Witness ==
  /\ op.name = "drop"
  /\ Len(prev) = 2
  /\ op.status = "done"
  /\ doc # prev
  /\ prev[op.line][CheckboxIndex(prev[op.line])] = " "

\* the color the nearest colored heading above line n gives, else the default
InheritedColorAt(lines, n) ==
  LET hs == {j \in 1..(n - 1) : CarriesColor(lines[j])}
  IN IF hs = {} THEN DefaultColor ELSE ColorOfHeading(lines[SetMax(hs)])

\* C4: the color of every parsed task is the explicit color of the nearest
\* heading above it that carries one, else #1976D2; colorless headings and
\* lines below the task do not matter.
C4_ColorFromNearestColoredHeadingAbove ==
  op.name = "parseTasks" =>
    \A k \in 1..Len(tasks) : tasks[k].color = InheritedColorAt(doc, tasks[k].lineNumber)

\* a task that inherits a color through a colorless heading, with a colored
\* heading below it
C4_Witness ==
  /\ op.name = "parseTasks"
  /\ \E k \in 1..Len(tasks) :
       LET n == tasks[k].lineNumber
       IN /\ n = 3
          /\ CarriesColor(doc[1])
          /\ IsHeadingLine(doc[2]) /\ ~CarriesColor(doc[2])
          /\ Len(doc) = 4 /\ CarriesColor(doc[4])
          /\ tasks[k].color = ColorOfHeading(doc[1])
          /\ tasks[k].color # ColorOfHeading(doc[4])

\* the title of the nearest heading above line n, null when there is none
HeadingAt(lines, n) ==
  LET hs == {j \in 1..(n - 1) : IsHeadingLine(lines[j])}
  IN IF hs = {} THEN Null ELSE TitleOfHeading(lines[SetMax(hs)])

\* C5: the heading of every parsed task is the title of the nearest heading
\* line above it; a task above every heading has no heading and the default color.
C5_HeadingFromNearestHeadingAbove ==
  op.name = "parseTasks" =>
    \A k \in 1..Len(tasks) :
      /\ tasks[k].heading = HeadingAt(doc, tasks[k].lineNumber)
      /\ HeadingAt(doc, tasks[k].lineNumber) = Null => tasks[k].color = DefaultColor

\* one task above every heading and one under a colored and a colorless heading
C5_Witness ==
  /\ op.name = "parseTasks"
  /\ Len(tasks) = 2
  /\ tasks[1].heading = Null
  /\ tasks[1].color = DefaultColor
  /\ tasks[2].lineNumber = 4
  /\ CarriesColor(doc[2])
  /\ tasks[2].heading = TitleOfHeading(doc[3])
  /\ tasks[2].heading # TitleOfHeading(doc[2])

\* C6: with the three filter sets empty the board shows exactly the tasks
\* parseTasks reports for the current document.
C6_EmptyFilterIsIdentity ==
  (showingKanban /\ kanbanFilters = NoFilters) => CardTasks = parseTasks(doc)

C6_Witness ==
  /\ showingKanban
  /\ kanbanFilters = NoFilters
  /\ op.name = "drop"
  /\ doc # prev
  /\ Len(cards) = 2
  /\ \E i \in 1..2 : cards[i].task.priority = Null

\* the filter as a conjunction: status, priority, and every selected tag
Shown(t, f) ==
  /\ f.statuses = {} \/ t.status \in f.statuses
  /\ f.priorities = {} \/ (t.priority # Null /\ t.priority \in f.priorities)
  /\ Len(f.tags) = 0 \/ \A i \in 1..Len(f.tags) : stripPlus(f.tags[i]) \in TagNames(t.text)

\* C7: a task is on the board iff it passes the status set, the priority set
\* and carries every selected tag; empty sets pass everything.
C7_FilterIsConjunction ==
  showingKanban =>
    CardTasks = SelectSeq(parseTasks(doc), LAMBDA t : Shown(t, kanbanFilters))

\* two tags selected: a task with both is shown, a task with one of them hidden
C7_Witness ==
  /\ showingKanban
  /\ Len(kanbanFilters.tags) = 2
  /\ Len(cards) = 1
  /\ Len(parseTasks(doc)) = 2
  /\ \E i \in 1..2 :
       LET t == parseTasks(doc)[i]
       IN t # cards[1].task /\ kanbanFilters.tags[1] \in TagNames(t.text)

(***************************************************************************)
(* Dates.  An instant is a number of hours since 1970-01-01T00:00Z (the    *)
(* code counts milliseconds; every instant it builds is a whole hour).     *)
(***************************************************************************)
\* dayMs, in hours
dayMs == 24

\* the day number (days since 1970-01-01) of the civil date y-m-d
daysFromCivil(y, m, d) ==
  LET yy == IF m <= 2 THEN y - 1 ELSE y
      era == yy \div 400
      yoe == yy - era * 400
      mp == IF m > 2 THEN m - 3 ELSE m + 9
      doy == (153 * mp + 2) \div 5 + d - 1
      doe == yoe * 365 + yoe \div 4 - yoe \div 100 + doy
  IN era * 146097 + doe - 719468

\* the civil date of a day number
civilFromDays(z) ==
  LET zz == z + 719468
      era == zz \div 146097
      doe == zz - era * 146097
      yoe == (doe - doe \div 1460 + doe \div 36524 - doe \div 146096) \div 365
      doy == doe - (365 * yoe + yoe \div 4 - yoe \div 100)
      mp == (5 * doy + 2) \div 153
      m == IF mp < 10 THEN mp + 3 ELSE mp - 9
  IN [y |-> yoe + era * 400 + (IF m <= 2 THEN 1 ELSE 0),
      m |-> m,
      d |-> doy - (153 * mp + 2) \div 5 + 1]

\* n written with at least w digits
RECURSIVE padStart(_, _)
padStart(s, w) == IF Len(s) >= w THEN s ELSE padStart(<<"0">> \o s, w)

\* d.toISOString().slice(0,10) for an instant of the years 0..9999
toISODate(t) ==
  LET c == civilFromDays(t \div dayMs)
  IN padStart(numToString(c.y), 4) \o <<"-">> \o padStart(numToString(c.m), 2)
     \o <<"-">> \o padStart(numToString(c.d), 2)

\* new Date("YYYY-MM-DD") for a string naming a real calendar day: UTC midnight
dateOfString(s) ==
  daysFromCivil(parseInt(SubSeq(s, 1, 4)), parseInt(SubSeq(s, 6, 7)),
                parseInt(SubSeq(s, 9, 10))) * dayMs

\* today.setHours(0,0,0,0): local midnight of local day number day, in a zone
\* tz hours east of UTC
localMidnight(day, tz) == day * dayMs - tz

(***************************************************************************)
(* Gantt chart: the bar of a task and the drag that writes dates back      *)
(***************************************************************************)
widthPerDay == 24

\* Math.round(a / b) for b > 0
roundDiv(a, b) == (2 * a + b) \div (2 * b)

\* (t.start||'').replace('start:','') : <<>> when the field is missing
fieldValue(f, name) == IF f = Null THEN <<>> ELSE From(f, Len(name) + 2)

\* days of month m of year y
daysInMonth(y, m) ==
  IF m = 2
  THEN (IF y % 4 = 0 /\ (y % 100 # 0 \/ y % 400 = 0) THEN 29 ELSE 28)
  ELSE IF m \in {4, 6, 9, 11} THEN 30 ELSE 31

\* new Date("YYYY-MM-DD").getTime() as the set of its numeric values: one
\* instant, or the empty set for an Invalid Date (NaN).  A day of 29..31 that
\* the month does not have is Invalid Date in a strict engine and rolls over
\* into the next month in a lenient one.
newDate(s, lenient) ==
  LET y == parseInt(SubSeq(s, 1, 4))
      m == parseInt(SubSeq(s, 6, 7))
      d == parseInt(SubSeq(s, 9, 10))
  IN IF m \in 1..12 /\ d \in 1..31 /\ (d <= daysInMonth(y, m) \/ lenient)
     THEN {dateOfString(s)}
     ELSE {}

\* the bar renderGantt draws for task t.  sIdx and eIdx are clamp(sDate) and
\* clamp(eDate), each the set of its numeric values (empty for NaN); placed
\* says that style.left was given a length ("NaNpx" is not one and leaves the
\* property unset); left and width are parseInt(style.left)||0 and
\* parseInt(style.width)||0
ganttBar(t, startWindow, lenient) ==
  LET startStr == fieldValue(t.start, StartName)
      dueStr == fieldValue(t.due, DueName)
      sDate == IF startStr # <<>> THEN newDate(startStr, lenient) ELSE {startWindow}
      eDate == IF dueStr # <<>> THEN newDate(dueStr, lenient)
               ELSE {d + dayMs : d \in sDate}
      clamp(D) == {Max(0, Min(29, (d - startWindow) \div dayMs)) : d \in D}
      left == {i * widthPerDay : i \in clamp(sDate)}
      right == {i * widthPerDay : i \in clamp(eDate)}
      diff == {r - l : r \in right, l \in left} \ {0}
      width == SetMax({widthPerDay} \cup diff)
  IN [lineNumber |-> t.lineNumber,
      sIdx |-> clamp(sDate),
      eIdx |-> clamp(eDate),
      placed |-> left # {},
      left |-> SetMax({0} \cup left),
      width |-> width]

\* the header cells: String(dt.getDate()).padStart(2,'0') of the 30 days of
\* the window, in a zone tz hours east of UTC
ganttHeader(startWindow, tz) ==
  [i \in 1..30 |->
     padStart(numToString(
       civilFromDays((startWindow + (i - 1) * dayMs + tz) \div dayMs).d), 2)]

\* renderGantt(): the chart drawn from the document
renderGantt(lines, startWindow, tz, lenient) ==
  LET ts == parseTasks(lines)
  IN [showing |-> TRUE,
      bars |-> [k \in 1..Len(ts) |-> ganttBar(ts[k], startWindow, lenient)],
      startWindow |-> startWindow,
      zone |-> tz,
      header |-> ganttHeader(startWindow, tz),
      dx |-> 0]

\* the mousemove listener: the bar after the pointer moved dx from mousedown
ganttMouseMove(bar, mode, dx) ==
  IF mode = "move" THEN [bar EXCEPT !.left = bar.left + dx, !.placed = TRUE]
  ELSE IF mode = "start"
  THEN LET nl == Min(bar.left + bar.width - widthPerDay, bar.left + dx)
       IN [bar EXCEPT !.left = nl, !.placed = TRUE,
                      !.width = bar.width + (bar.left - nl)]
  ELSE [bar EXCEPT !.width = Max(widthPerDay, bar.width + dx)]

\* the mouseup listener: the dates handed to updateTaskDatesAtLine
ganttMouseUp(bar, startWindow) ==
  LET startIdx == roundDiv(bar.left, widthPerDay)
      endIdx == roundDiv(bar.left + bar.width, widthPerDay)
  IN [s |-> startWindow + startIdx * dayMs, e |-> startWindow + endIdx * dayMs]

(***************************************************************************)
(* Line-command specification: one editing command on a line of a bounded  *)
(* document.  The commands are the two editors' toggleTaskStatus and       *)
(* addTodaysDate.                                                          *)
(***************************************************************************)
\* longest document of the line-command specification
MaxPatchLines == 2

\* lines of the line-command documents: tasks with each bullet and status,
\* with trailing space and tab, with "due:" and no date, with a date, with a
\* date behind a word character, with both; a bullet without checkbox, a heading
PatchLines ==
  {<<"-", " ", "[", " ", "]", " ", "a">>,
   <<" ", " ", "*", " ", "[", "/", "]", " ", "b", " ">>,
   <<"+", " ", "[", "x", "]", " ", "c", " ", "d", "u", "e", ":", "2", "0", "2", "6", "-", "0", "1", "-", "0", "2">>,
   <<"-", " ", "[", "/", "]", " ", "d", " ", "d", "u", "e", ":">>,
   <<"-", " ", "[", "x", "]", " ", "e", " ", "x", "d", "u", "e", ":", "2", "0", "2", "6", "-", "0", "1", "-", "0", "2">>,
   <<"-", " ", " ", "[", " ", "]", " ", "f", "\t">>,
   <<"-", " ", "[", " ", "]", " ", "x", "d", "u", "e", ":", "2", "0", "2", "6", "-", "0", "1", "-", "0", "2", " ", "d", "u", "e", ":", "2", "0", "2", "6", "-", "0", "1", "-", "0", "3">>,
   <<"-", " ", "g">>,
   <<"#", " ", "H">>}

\* instants at which addTodaysDate reads the clock: 2026-03-04T09Z, 2026-12-31T23Z
Nows == {20516 * dayMs + 9, 20818 * dayMs + 23}

InitPatch ==
  /\ doc \in AllDocs(PatchLines, MaxPatchLines)
  /\ InitCommon

\* Ctrl+Shift+T in the Monaco editor, the cursor on line ln
CmdToggleTaskStatus ==
  /\ op = NoOp
  /\ \E ln \in 1..Len(doc) :
       /\ doc' = replaceLine(doc, ln, toggleTaskStatus(doc[ln]))
       /\ op' = Op("toggleTaskStatus", ln, "", <<>>, <<>>, <<>>, 1)
  /\ cards' = onDidChangeContent(doc')
  /\ prev' = doc
  /\ UNCHANGED <<kanbanDisplay, kanbanFilters, tasks, gantt, network, server>>

\* Ctrl+Shift+T in the Ace editor (app.js), the cursor on line ln
CmdToggleTaskStatusAce ==
  /\ op = NoOp
  /\ \E ln \in 1..Len(doc) :
       /\ doc' = [doc EXCEPT ![ln] = toggleTaskStatusAce(doc[ln])]
       /\ op' = Op("toggleTaskStatusAce", ln, "", <<>>, <<>>, <<>>, 1)
  /\ prev' = doc
  /\ UNCHANGED <<kanbanDisplay, kanbanFilters, cards, tasks, gantt,
               network, server>>

\* Ctrl+Shift+D in the Monaco editor, the cursor on line ln
CmdAddTodaysDate ==
  /\ op = NoOp
  /\ \E ln \in 1..Len(doc), now \in Nows :
       LET today == toISODate(now)
       IN /\ doc' = replaceLine(doc, ln, addTodaysDate(doc[ln], today))
          /\ op' = Op("addTodaysDate", ln, "", <<>>, <<>>, today, 1)
  /\ cards' = onDidChangeContent(doc')
  /\ prev' = doc
  /\ UNCHANGED <<kanbanDisplay, kanbanFilters, tasks, gantt, network, server>>

\* Ctrl+Shift+D in the Ace editor (app.js), the cursor on line ln
CmdAddTodaysDateAce ==
  /\ op = NoOp
  /\ \E ln \in 1..Len(doc), now \in Nows :
       LET today == toISODate(now)
       IN /\ doc' = [doc EXCEPT ![ln] = addTodaysDateAce(doc[ln], today)]
          /\ op' = Op("addTodaysDateAce", ln, "", <<>>, <<>>, today, 1)
  /\ prev' = doc
  /\ UNCHANGED <<kanbanDisplay, kanbanFilters, cards, tasks, gantt,
               network, server>>

NextPatch ==
  \/ CmdToggleTaskStatus
  \/ CmdToggleTaskStatusAce
  \/ CmdAddTodaysDate
  \/ CmdAddTodaysDateAce

SpecPatch == InitPatch /\ [][NextPatch]_vars

(***************************************************************************)
(* Properties of the line commands                                         *)
(***************************************************************************)
\* a task line in its canonical spelling: indentation, a bullet, one space and
\* a checkbox
IsCanonicalTaskLine(line) ==
  LET i == LeadWs(line)
  IN /\ Len(line) >= i + 5
     /\ line[i + 1] \in {"-", "*", "+"}
     /\ line[i + 2] = " "
     /\ line[i + 3] = "["
     /\ line[i + 4] \in {" ", "/", "x"}
     /\ line[i + 5] = "]"

NextInCycle(ch) == CASE ch = " " -> "/" [] ch = "/" -> "x" [] ch = "x" -> " "

\* C1: toggleTaskStatus (either editor) on a valid task line advances the
\* checkbox character ' ' -> '/' -> 'x' -> ' ' and changes no other character
\* of the line or of the document; three applications are then the identity.
C1_ToggleAdvancesCheckboxOnly ==
  (/\ op.name \in {"toggleTaskStatus", "toggleTaskStatusAce"}
   /\ IsCanonicalTaskLine(prev[op.line]))
  => LET p == LeadWs(prev[op.line]) + 4
     IN doc = [prev EXCEPT ![op.line] = [@ EXCEPT ![p] = NextInCycle(@)]]

DueColon == <<"d", "u", "e", ":">>

\* the line the due date is set on: the cursor line for addTodaysDate, the line
\* as the start step left it for updateTaskDatesAtLine
DueStepInput ==
  IF op.name = "updateTaskDatesAtLine"
  THEN setDatedField(prev[op.line], StartName, op.start)
  ELSE prev[op.line]

SetsDueDate == op.name \in {"addTodaysDate", "addTodaysDateAce", "updateTaskDatesAtLine"}

Occurrences(s, t) == {i \in 1..Len(s) : OccursAt(s, t, i)}

\* C8: setting the due date to d on a line without "due:" appends "due:d" to
\* the unchanged line, after one space exactly when the line does not end in
\* whitespace; the result contains due:d once and the rest of the document
\* is untouched.
C8_DueAppendedAfterOneSeparator ==
  (SetsDueDate /\ ~Includes(DueStepInput, DueColon))
  => LET l == DueStepInput
         sep == IF Len(l) > 0 /\ IsWs(l[Len(l)]) THEN <<>> ELSE <<" ">>
     IN /\ doc = [prev EXCEPT ![op.line] = l \o sep \o DueColon \o op.due]
        /\ Cardinality(Occurrences(doc[op.line], DueColon \o op.due)) = 1

\* C9: setting the due date to d on a line that contains due:X, X of the form
\* YYYY-MM-DD, replaces that X by d in place and changes nothing else.
C9_DueReplacedInPlace ==
  (SetsDueDate /\ fieldMatches(DueStepInput, DueName) # {})
  => \E i \in fieldMatches(DueStepInput, DueName) :
       doc = [prev EXCEPT ![op.line] =
                SubSeq(DueStepInput, 1, i + 3) \o op.due \o From(DueStepInput, i + 14)]

(***************************************************************************)
(* New-task specification: the new-task dialog on a bounded document       *)
(***************************************************************************)
\* longest document of the new-task specification
MaxInsertLines == 3

\* lines of the new-task documents: a heading of each level, a task, an empty
\* line (a document ending in it ends with a line break)
InsertLines ==
  {<<"#", " ", "A">>,
   <<"#", "#", " ", "B">>,
   <<"#", "#", "#", " ", "C">>,
   <<"-", " ", "[", " ", "]", " ", "t">>,
   <<>>}

\* what the user types into #ntText
TaskTexts == {<<"n">>, <<" ", "m", " ", "+", "u", "i", " ">>, <<" ">>}

\* values of the date inputs #ntStart and #ntDue: empty or a day
StartInputs == {<<>>, toISODate(20455 * dayMs)}

DueInputs == {<<>>, toISODate(20456 * dayMs)}

InitInsert ==
  /\ doc \in AllDocs(InsertLines, MaxInsertLines)
  /\ InitCommon

\* sel.value of #ntHeading: an option of the list openNewTaskDialog built, ''
\* when there is no heading
headingOptions(lines) ==
  IF collectHeadings(lines) = {} THEN {<<>>}
  ELSE {numToString(h) : h \in collectHeadings(lines)}

\* parseInt(sel.value, 10) || 1, insertTaskUnderHeading; nothing when the
\* trimmed text is empty
createTaskFromDialog(lines, selValue, raw, start, due) ==
  LET text == Trim(raw)
      targetLine == IF parseInt(selValue) # 0 THEN parseInt(selValue) ELSE 1
  IN IF text = <<>> THEN lines
     ELSE insertTaskUnderHeading(lines, targetLine, text, start, due)

\* openNewTaskDialog, the form filled in, then the Add Task button
NewTaskDialog ==
  /\ op = NoOp
  /\ \E selValue \in headingOptions(doc), raw \in TaskTexts,
        start \in StartInputs, due \in DueInputs :
       /\ doc' = createTaskFromDialog(doc, selValue, raw, start, due)
       /\ op' = IF Trim(raw) = <<>> THEN op
                ELSE Op("insertTaskUnderHeading",
                        IF parseInt(selValue) # 0 THEN parseInt(selValue) ELSE 1,
                        "", Trim(raw), start, due, 1)
  /\ cards' = IF doc' # doc THEN onDidChangeContent(doc') ELSE cards
  /\ prev' = doc
  /\ UNCHANGED <<kanbanDisplay, kanbanFilters, tasks, gantt, network, server>>

NextInsert == NewTaskDialog

SpecInsert == InitInsert /\ [][NextInsert]_vars

(***************************************************************************)
(* Gantt specification: the chart over a bounded document, one drag of a   *)
(* bar, one task added through the dialog                                  *)
(***************************************************************************)
\* longest document of the Gantt specification
MaxGanttLines == 2

\* lines of the Gantt documents: a task without dates, with both dates inside
\* the window, with a start before and a due after the window, with a start
\* token that names no month, with a due token that names no day of its
\* month, with a date behind a word character, alone and before a due date;
\* a heading
GanttLines ==
  {<<"-", " ", "[", " ", "]", " ", "a">>,
   <<"-", " ", "[", "/", "]", " ", "b", " ", "s", "t", "a", "r", "t", ":", "2", "0", "2", "6", "-", "0", "1", "-", "0", "3", " ", "d", "u", "e", ":", "2", "0", "2", "6", "-", "0", "1", "-", "0", "5">>,
   <<"-", " ", "[", "x", "]", " ", "c", " ", "s", "t", "a", "r", "t", ":", "2", "0", "2", "5", "-", "1", "2", "-", "2", "5", " ", "d", "u", "e", ":", "2", "0", "2", "6", "-", "0", "3", "-", "0", "1">>,
   <<"-", " ", "[", " ", "]", " ", "d", " ", "s", "t", "a", "r", "t", ":", "2", "0", "2", "6", "-", "1", "3", "-", "4", "5">>,
   <<"-", " ", "[", " ", "]", " ", "g", " ", "d", "u", "e", ":", "2", "0", "2", "6", "-", "0", "2", "-", "3", "0">>,
   <<"-", " ", "[", "x", "]", " ", "e", " ", "x", "d", "u", "e", ":", "2", "0", "2", "6", "-", "0", "1", "-", "0", "2">>,
   <<"-", " ", "[", " ", "]", " ", "f", " ", "x", "d", "u", "e", ":", "2", "0", "2", "6", "-", "0", "1", "-", "0", "2", " ", "d", "u", "e", ":", "2", "0", "2", "6", "-", "0", "1", "-", "0", "3">>,
   <<"#", " ", "H">>}

\* local day on which the Gantt chart was rendered: 2026-01-01
GanttDays == {20454}

\* hours east of UTC of the browser's time zone
Zones == {0 - 5, 0, 2}

\* pointer displacements of a Gantt drag, in pixels
Drags == {0, 36}

InitGantt ==
  /\ doc \in AllDocs(GanttLines, MaxGanttLines)
  /\ InitCommon

\* toggleGanttView's test "showing"
showingGantt == gantt.showing

\* the Gantt button: hide the chart, or hide the editor and the Kanban board
\* and draw the chart from the document
ToggleGanttView ==
  /\ op = NoOp
  /\ IF showingGantt
     THEN /\ gantt' = [gantt EXCEPT !.showing = FALSE]
          /\ UNCHANGED kanbanDisplay
     ELSE /\ kanbanDisplay' = "none"
          /\ \E day \in GanttDays, tz \in Zones, lenient \in BOOLEAN :
               gantt' = renderGantt(doc, localMidnight(day, tz), tz, lenient)
  /\ op' = NoOp
  /\ prev' = doc
  /\ UNCHANGED <<doc, kanbanFilters, cards, tasks, network, server>>

\* a drag of bar k of the chart: mousedown in one of the three grips, one
\* mousemove, mouseup
GanttDrag ==
  /\ op = NoOp
  /\ showingGantt
  /\ \E k \in 1..Len(gantt.bars), mode \in {"move", "start", "end"}, dx \in Drags :
       LET bar == ganttMouseMove(gantt.bars[k], mode, dx)
           d == ganttMouseUp(bar, gantt.startWindow)
           s == toISODate(d.s)
           e == toISODate(d.e)
           ln == bar.lineNumber
       IN /\ doc' = replaceLine(doc, ln, updateTaskDatesAtLine(doc[ln], s, e))
          /\ gantt' = [gantt EXCEPT !.bars[k] = bar, !.dx = dx]
          /\ op' = Op("updateTaskDatesAtLine", ln, "", <<>>, s, e, 1)
  /\ cards' = onDidChangeContent(doc')
  /\ prev' = doc
  /\ UNCHANGED <<kanbanDisplay, kanbanFilters, tasks, network, server>>

NextGantt ==
  \/ ToggleGanttView
  \/ GanttDrag
  \/ NewTaskDialog

SpecGantt == InitGantt /\ [][NextGantt]_vars

(***************************************************************************)
(* Properties of the new-task dialog                                       *)
(***************************************************************************)
\* the line before which a task for the heading on line h belongs: the first
\* later heading of the same or a higher rank, else one past the last line
SectionEnd(lines, h) ==
  LET later == {j \in (h + 1)..Len(lines) :
                  IsHeadingLine(lines[j]) /\ HashRun(lines[j]) <= HashRun(lines[h])}
  IN IF later = {} THEN Len(lines) + 1 ELSE SetMin(later)

InsertLineAt(lines, p, l) == SubSeq(lines, 1, p - 1) \o <<l>> \o From(lines, p)

\* '- [ ] ' + text, then ' start:..' and ' due:..' when given
NewTaskLine(text, start, due) ==
  <<"-", " ", "[", " ", "]", " ">> \o text
  \o (IF start = <<>> THEN <<>> ELSE <<" ">> \o StartName \o <<":">> \o start)
  \o (IF due = <<>> THEN <<>> ELSE <<" ">> \o DueColon \o due)

\* C10: insertTaskUnderHeading(h, text, meta) yields the old document with
\* exactly one new line, the task line, inserted immediately before the first
\* heading after h of level <= the level of h, or as a new last line when
\* there is none; every old line is kept verbatim and in order.  (When the old
\* document ends with an empty line, the new line may also take that line's
\* place before it: the new task then is the last line of text.)
C10_InsertAddsOneLineKeepsTheRest ==
  (op.name = "insertTaskUnderHeading" /\ IsHeadingLine(prev[op.line]))
  => LET p == SectionEnd(prev, op.line)
         l == NewTaskLine(op.text, op.start, op.due)
     IN \/ doc = InsertLineAt(prev, p, l)
        \/ /\ p = Len(prev) + 1
           /\ prev[Len(prev)] = <<>>
           /\ doc = InsertLineAt(prev, Len(prev), l)

(***************************************************************************)
(* Vocabulary: task lines                                                  *)
(***************************************************************************)
\* a task line: indentation, a bullet, at least minGap whitespace characters,
\* a checkbox; the position of the status character, 0 when the line is none
StatusIndex(line, minGap) ==
  LET i == LeadWs(line)
      g == IF Len(line) > i + 1 THEN LeadWs(From(line, i + 2)) ELSE 0
  IN IF /\ Len(line) >= i + g + 4
        /\ line[i + 1] \in {"-", "*", "+"}
        /\ g >= minGap
        /\ line[i + g + 2] = "["
        /\ line[i + g + 3] \in {" ", "/", "x"}
        /\ line[i + g + 4] = "]"
     THEN i + g + 3 ELSE 0

\* a line matching TaskMatch, the whitespace after the bullet optional
IsTaskLine(line) == StatusIndex(line, 0) # 0

\* C11: toggleTaskStatus (either editor) on a line that is not a task line
\* turns it into a Pending task: indentation, '- [ ] ', then the old content
\* without its indentation and without one leading bare '-' (and the
\* whitespace after it, or not); no other line changes.
C11_ToggleConvertsNonTaskLine ==
  (/\ op.name \in {"toggleTaskStatus", "toggleTaskStatusAce"}
   /\ ~IsTaskLine(prev[op.line]))
  => LET l == prev[op.line]
         indent == SubSeq(l, 1, LeadWs(l))
         rest == From(l, LeadWs(l) + 1)
         bare == IF Len(rest) > 0 /\ rest[1] = "-" THEN Tail(rest) ELSE rest
         box == <<"-", " ", "[", " ", "]", " ">>
     IN \/ doc = [prev EXCEPT ![op.line] = indent \o box \o bare]
        \/ doc = [prev EXCEPT ![op.line] = indent \o box \o TrimLeft(bare)]

(***************************************************************************)
(* Record specification: parseTasks over short documents of varied lines   *)
(***************************************************************************)
\* longest document of the record specification
MaxRecordLines == 2

\* lines of the record documents: tasks with each bullet and status, with
\* tags (repeated, inside a word), dated fields (repeated, behind a word
\* character), priorities (repeated, not a letter of a-c), without whitespace
\* after the bullet, with a wrong and with no status character, indented; a
\* heading, a line of four '#', a text line
RecordLines ==
  {<<"-", " ", "[", " ", "]", " ", "b", "u", "y", " ", "m", "i", "l", "k", " ", "+", "g", "r", "o", "c", "e", "r", "y", " ", "d", "u", "e", ":", "2", "0", "2", "5", "-", "0", "1", "-", "2", "0", " ", "(", "a", ")">>,
   <<"*", " ", "[", "/", "]", " ", "+", "b", " ", "+", "a", " ", "+", "b", " ", "(", "c", ")", "(", "b", ")", " ", "d", "u", "e", ":", "2", "0", "2", "5", "-", "0", "1", "-", "0", "3", " ", "d", "u", "e", ":", "2", "0", "2", "5", "-", "0", "1", "-", "0", "4", " ", "s", "t", "a", "r", "t", ":", "2", "0", "2", "5", "-", "0", "1", "-", "0", "2">>,
   <<"+", " ", "[", "x", "]", " ", "x", "d", "u", "e", ":", "2", "0", "2", "5", "-", "0", "1", "-", "0", "5", " ", "a", "+", "b", " ", "c", "+", " ", "(", "d", ")">>,
   <<"-", "[", " ", "]", " ", "z">>,
   <<"-", " ", "[", "y", "]", " ", "q">>,
   <<" ", " ", "-", "\t", "[", "x", "]", " ", " ", "w">>,
   <<"-", " ", "[", "]", " ", "e">>,
   <<"#", " ", "H", " ", "#", "0", "0", "F", "F", "0", "0">>,
   <<"#", "#", "#", "#", " ", "I">>,
   <<"t", "e", "x", "t">>}

InitRecord ==
  /\ doc \in AllDocs(RecordLines, MaxRecordLines)
  /\ InitCommon

SpecRecord == InitRecord /\ [][NextParse]_vars

(***************************************************************************)
(* Properties of the parsed records                                        *)
(***************************************************************************)
\* the elements of a finite set of numbers in increasing order
RECURSIVE Ascending(_)
Ascending(S) == IF S = {} THEN <<>> ELSE <<SetMin(S)>> \o Ascending(S \ {SetMin(S)})

\* the body of a task line: what follows the checkbox, leading whitespace dropped
BodyOf(line) == TrimLeft(From(line, StatusIndex(line, 0) + 2))

\* where a tag begins: a '+' with a tag character after it
TagStarts(text) ==
  {i \in 1..(Len(text) - 1) : text[i] = "+" /\ IsTagChar(text[i + 1])}

\* the last character of the tag beginning at i
TagEnd(text, i) ==
  SetMin({j \in (i + 1)..Len(text) : j = Len(text) \/ ~IsTagChar(text[j + 1])})

\* the tags in order of appearance, with (from = 0) or without (from = 1) the '+'
TagsInOrder(text, from) ==
  LET at == Ascending(TagStarts(text))
  IN [k \in 1..Len(at) |-> SubSeq(text, at[k] + from, TagEnd(text, at[k]))]

\* where a field name:YYYY-MM-DD stands as a token of its own
FieldStarts(text, name) ==
  {i \in 1..Len(text) :
     /\ OccursAt(text, name \o <<":">>, i)
     /\ IsDateAt(text, i + Len(name) + 1)
     /\ i = 1 \/ text[i - 1] \notin WordChars
     /\ i + Len(name) + 10 = Len(text) \/ text[i + Len(name) + 11] \notin WordChars}

\* the first field of that name, from the name on (from = 0) or the date alone
FirstField(text, name, from) ==
  LET at == FieldStarts(text, name)
  IN IF at = {} THEN Null
     ELSE SubSeq(text, SetMin(at) + from * (Len(name) + 1), SetMin(at) + Len(name) + 10)

\* the letter of the first (a), (b) or (c)
FirstPriority(text) ==
  LET at == {i \in 1..(Len(text) - 2) :
               text[i] = "(" /\ text[i + 1] \in {"a", "b", "c"} /\ text[i + 2] = ")"}
  IN IF at = {} THEN Null ELSE <<text[SetMin(at) + 1]>>

\* C12 as stated: the record of every task line carries tags as the list of
\* the bare tag names in order of appearance (duplicates kept), due and start
\* as the bare YYYY-MM-DD of the first due:/start: field, priority as the
\* letter of the first (a)/(b)/(c).
C12_RecordHoldsBareValues ==
  op.name = "parseTasks" =>
    \A k \in 1..Len(tasks) :
      LET body == BodyOf(doc[tasks[k].lineNumber])
      IN /\ tasks[k].tags = TagsInOrder(body, 1)
         /\ tasks[k].due = FirstField(body, DueName, 1)
         /\ tasks[k].start = FirstField(body, StartName, 1)
         /\ tasks[k].priority = FirstPriority(body)

\* C12, amended: the record of every task line carries tags as one string,
\* the tags as written ('+' included) in order of appearance, duplicates
\* kept, joined by single spaces; due and start as the whole first field
\* "due:YYYY-MM-DD" / "start:YYYY-MM-DD" (null when there is none); priority
\* as the letter of the first (a)/(b)/(c) (null when there is none).
C12_RecordHoldsTokensAsWritten ==
  op.name = "parseTasks" =>
    \A k \in 1..Len(tasks) :
      LET body == BodyOf(doc[tasks[k].lineNumber])
      IN /\ tasks[k].tags = JoinSp(TagsInOrder(body, 0))
         /\ tasks[k].due = FirstField(body, DueName, 0)
         /\ tasks[k].start = FirstField(body, StartName, 0)
         /\ tasks[k].priority = FirstPriority(body)

\* the example of the specification next to a task with a repeated tag, two
\* due fields and two priorities
C12_Witness ==
  /\ op.name = "parseTasks"
  /\ Len(tasks) = 2
  /\ tasks[1].status = "backlog"
  /\ tasks[1].tags = <<"+", "g", "r", "o", "c", "e", "r", "y">>
  /\ tasks[1].due = DueColon \o <<"2", "0", "2", "5", "-", "0", "1", "-", "2", "0">>
  /\ tasks[1].priority = <<"a">>
  /\ Len(TagsInOrder(tasks[2].text, 0)) = 3
  /\ Cardinality(FieldStarts(tasks[2].text, DueName)) = 2
  /\ tasks[2].priority = <<"c">>

(***************************************************************************)
(* Heading specification: the parser and the new-task dialog over          *)
(* documents of '#' lines                                                  *)
(***************************************************************************)
\* longest document of the heading specification
MaxHeadingLines == 3

\* lines of the heading documents: headings of one, two (colored) and three
\* '#', a line of four '#' with a color, a '#' without whitespace, a task
HeadingLines ==
  {<<"#", " ", "A">>,
   <<"#", "#", " ", "B", " ", "#", "F", "F", "0", "0", "0", "0">>,
   <<"#", "#", "#", "\t", "C">>,
   <<"#", "#", "#", "#", " ", "D", " ", "#", "0", "0", "F", "F", "0", "0">>,
   <<"#", "x">>,
   <<"-", " ", "[", " ", "]", " ", "t">>}

InitHeadings ==
  /\ doc \in AllDocs(HeadingLines, MaxHeadingLines)
  /\ InitCommon

NextHeadings ==
  \/ RunParseTasks
  \/ NewTaskDialog

SpecHeadings == InitHeadings /\ [][NextHeadings]_vars

(***************************************************************************)
(* Properties of heading recognition                                       *)
(***************************************************************************)
\* s ends with t
EndsWith(s, t) == Len(s) >= Len(t) /\ From(s, Len(s) - Len(t) + 1) = t

\* C13: exactly the lines of one to three '#' followed by whitespace are
\* headings, for the dialog's heading list, for the parser (a task takes title
\* and color from the nearest such lines above it; '#' lines emit no task) and
\* for the insertion (the new task goes before the first such line of the same
\* or a higher rank after h, else to the end of the text); a line of four or
\* more '#' is no heading for any of them.
C13_OneToThreeHashesMakeAHeading ==
  /\ collectHeadings(doc) = {i \in 1..Len(doc) : IsHeadingLine(doc[i])}
  /\ op.name = "parseTasks" =>
       \A k \in 1..Len(tasks) :
         /\ doc[tasks[k].lineNumber][1] # "#"
         /\ tasks[k].heading = HeadingAt(doc, tasks[k].lineNumber)
         /\ tasks[k].color = InheritedColorAt(doc, tasks[k].lineNumber)
  /\ (op.name = "insertTaskUnderHeading" /\ IsHeadingLine(prev[op.line])) =>
       LET p == SectionEnd(prev, op.line)
           l == NewTaskLine(op.text, op.start, op.due)
           n == Len(prev)
       IN IF p <= n THEN doc = InsertLineAt(prev, p, l)
          ELSE /\ Len(doc) = n + 1
               /\ SubSeq(doc, 1, n - 1) = SubSeq(prev, 1, n - 1)
               /\ EndsWith(doc[n], l)
               /\ doc[n + 1] = <<>>

\* a task inserted under a colored heading, past a colored line of four '#'
\* and before the next heading of a higher rank, then parsed
C13_Witness ==
  /\ op.name = "parseTasks"
  /\ Len(doc) = 4
  /\ CarriesColor(doc[1])
  /\ HashRun(doc[2]) = 4
  /\ IsHeadingLine(doc[4]) /\ HashRun(doc[4]) < HashRun(doc[1])
  /\ Len(tasks) = 1
  /\ tasks[1].lineNumber = 3
  /\ tasks[1].color = ColorOfHeading(doc[1])
  /\ tasks[1].heading = TitleOfHeading(doc[1])

\* the status a checkbox character stands for
StatusOfBox(ch) == CASE ch = " " -> "backlog" [] ch = "/" -> "inprogress" [] ch = "x" -> "done"

\* what parseTasks has to emit for a document whose task lines are those with
\* at least minGap whitespace characters between bullet and checkbox
EmitsTaskLines(minGap) ==
  op.name = "parseTasks" =>
    /\ [k \in 1..Len(tasks) |-> tasks[k].lineNumber]
         = Ascending({i \in 1..Len(doc) : StatusIndex(doc[i], minGap) # 0})
    /\ \A k \in 1..Len(tasks) :
         LET n == tasks[k].lineNumber
         IN /\ n \in 1..Len(doc)
            /\ StatusIndex(doc[n], 0) # 0
            /\ tasks[k].status = StatusOfBox(doc[n][StatusIndex(doc[n], 0)])
            /\ tasks[k].text = BodyOf(doc[n])
            /\ tasks[k].heading = HeadingAt(doc, n)
            /\ tasks[k].color = InheritedColorAt(doc, n)

\* C14 as stated: parseTasks emits a task for a line iff the line is
\* indentation, a bullet, whitespace, '[', a status character, ']', body; the
\* status follows the character; the lines that are neither task nor heading
\* emit nothing and leave the inherited heading and color alone.
C14_TaskIffBulletWhitespaceCheckbox == EmitsTaskLines(1)

\* C14, amended: as stated, with the whitespace between the bullet and '['
\* optional (a line such as '-[ ] z' is a task line).
C14_TaskIffBulletOptionalWhitespaceCheckbox == EmitsTaskLines(0)

\* a task without whitespace after its bullet next to a bulleted line whose
\* checkbox holds no valid status character
C14_Witness ==
  /\ op.name = "parseTasks"
  /\ Len(doc) = 2
  /\ Len(tasks) = 1
  /\ StatusIndex(doc[tasks[1].lineNumber], 1) = 0
  /\ \E i \in 1..2 : doc[i][1] = "-" /\ ~IsTaskLine(doc[i])

(***************************************************************************)
(* The Enter key on a heading line (editor action newTaskLine)             *)
(***************************************************************************)
\* line.match(/^(#{1,3})\s+(.+?)(\s+#[0-9A-Fa-f]{6})?\s*$/) : the first \s+
\* takes the whole whitespace run and gives one character back to the lazy
\* group 2 only when nothing follows it; group 2 is the shortest text after
\* which the rest is whitespace + color + optional whitespace (group 3 set)
\* or only whitespace
enterHeadingMatch(line) ==
  LET n == HashRun(line)
      w == IF Len(line) > n THEN LeadWs(From(line, n + 1)) ELSE 0
      core == TrimRight(From(line, n + w + 1))
      k == Len(core)
  IN IF ~(n \in 1..3 /\ w >= 1) THEN [ok |-> FALSE, hasHex |-> FALSE]
     ELSE IF n + w = Len(line) THEN [ok |-> w >= 2, hasHex |-> FALSE]
     ELSE [ok |-> TRUE,
           hasHex |-> /\ k >= 9
                      /\ IsWs(core[k - 7])
                      /\ IsHexColor(From(core, k - 6))]

\* lines[i].match(/^#{1,3}\s+.*\s+(#[0-9A-Fa-f]{6})\s*$/) : group 1, or null;
\* the two \s+ need a whitespace character each, .* may be empty
scanHex(line) ==
  LET n == HashRun(line)
      core == TrimRight(line)
      k == Len(core)
  IN IF /\ n \in 1..3
        /\ k >= n + 9
        /\ IsWs(line[n + 1])
        /\ IsWs(core[k - 7])
        /\ IsHexColor(From(core, k - 6))
     THEN From(core, k - 6) ELSE Null

\* the loop "for (let i = lineNumber - 2; i >= 0; i--)" and the default:
\* i is the 1-based number of the line looked at
RECURSIVE inheritedHex(_, _)
inheritedHex(lines, i) ==
  IF i < 1 THEN DefaultColor
  ELSE IF scanHex(lines[i]) # Null THEN scanHex(lines[i])
  ELSE inheritedHex(lines, i - 1)

\* editor.trigger('keyboard', 'type', { text: '\n' }) with the caret at
\* (ln, col) of a line without indentation
typeNewline(lines, ln, col) ==
  pushEditOperations(lines, ln, col, ln, col, <<<<>>, <<>>>>)

\* the heading branch of the action: the document after the color was
\* appended (when group 3 is missing) and the line break was typed at caret
enterOnHeading(lines, ln, caret) ==
  LET line == lines[ln]
      newHeading == TrimRight(line) \o <<" ">> \o inheritedHex(lines, ln - 1)
      edited == IF enterHeadingMatch(line).hasHex THEN lines
                ELSE replaceLine(lines, ln, newHeading)
  IN typeNewline(edited, ln, caret)

(***************************************************************************)
(* Enter specification: one Enter on a heading of a bounded document       *)
(***************************************************************************)
\* longest document of the Enter specification
MaxEnterLines == 3

\* lines of the Enter documents: a heading without color, one with a color,
\* one that is nothing but a color, one with trailing spaces, a colored line
\* of four '#', a task
EnterLines ==
  {<<"#", " ", "A">>,
   <<"#", "#", " ", "B", " ", "#", "F", "F", "0", "0", "0", "0">>,
   <<"#", " ", " ", "#", "A", "B", "C", "D", "E", "F">>,
   <<"#", "#", "#", " ", "C", " ", " ">>,
   <<"#", "#", "#", "#", " ", "D", " ", "#", "0", "0", "F", "F", "0", "0">>,
   <<"-", " ", "[", " ", "]", " ", "t">>}

InitEnter ==
  /\ doc \in AllDocs(EnterLines, MaxEnterLines)
  /\ InitCommon

\* Enter with an empty selection at column col of heading line ln.  Where the
\* caret stands after the line was replaced is the editor's matter: it keeps
\* its column or moves to the end of the new text.
EnterOnHeading ==
  /\ op = NoOp
  /\ \E ln \in 1..Len(doc) :
       /\ Trim(doc[ln]) # <<>>
       /\ enterHeadingMatch(doc[ln]).ok
       /\ \E col \in {1, Len(doc[ln]) + 1}, keep \in BOOLEAN :
            LET hasHex == enterHeadingMatch(doc[ln]).hasHex
                newLen == Len(TrimRight(doc[ln])) + 8
                caret == IF hasHex THEN col
                         ELSE IF keep THEN Min(col, newLen + 1) ELSE newLen + 1
            IN /\ doc' = enterOnHeading(doc, ln, caret)
               /\ op' = Op("newTaskLine", ln, "", <<>>, <<>>, <<>>,
                           IF hasHex THEN 0 ELSE 1)
  /\ cards' = onDidChangeContent(doc')
  /\ prev' = doc
  /\ UNCHANGED <<kanbanDisplay, kanbanFilters, tasks, gantt, network, server>>

NextEnter == EnterOnHeading

SpecEnter == InitEnter /\ [][NextEnter]_vars

(***************************************************************************)
(* Properties of the Enter key                                             *)
(***************************************************************************)
\* C15: Enter on a heading without explicit color appends the explicit color
\* of the nearest heading above that carries one, else #1976D2; a heading
\* with a color keeps its text; the lines above and below are not touched
\* (the heading's text is read across the line break that Enter types).
C15_EnterAppendsColorFromAbove ==
  op.name = "newTaskLine" =>
    LET n == op.line
        l == prev[n]
        c == InheritedColorAt(prev, n)
        text == doc[n] \o doc[n + 1]
    IN /\ Len(doc) = Len(prev) + 1
       /\ SubSeq(doc, 1, n - 1) = SubSeq(prev, 1, n - 1)
       /\ From(doc, n + 2) = From(prev, n + 1)
       /\ IF CarriesColor(l) THEN text = l
          ELSE text \in {l \o <<" ">> \o c, TrimRight(l) \o <<" ">> \o c}


(***************************************************************************)
(* Properties of the Gantt chart                                           *)
(***************************************************************************)
\* the chart as renderGantt left it: showing, and no command since
FreshGantt == showingGantt /\ op = NoOp

\* the value of the first start: and of the first due: token of a task line
\* as the parser bounds them, <<>> when the line has none
DateValue(line, name) ==
  LET f == FirstField(BodyOf(line), name, 1)
  IN IF f = <<>> THEN <<>> ELSE From(f, Len(name) + 2)

\* the day index a date string has in the window, when it names an instant
WindowIndex(s, startWindow) ==
  LET t == dateOfString(s)
  IN IF t < startWindow THEN 0
     ELSE IF t >= startWindow + 30 * dayMs THEN 29
     ELSE (t - startWindow) \div dayMs

\* C16: on a freshly drawn chart every parsed task has exactly one bar, the
\* day index of both ends of every bar is a number in 0..29 (0 for a date
\* before the window, 29 for a date after it), the bar is at least one day
\* wide and its left position is defined
C16_EveryTaskHasOneClampedBar ==
  FreshGantt =>
    LET ts == parseTasks(doc)
    IN /\ Len(gantt.bars) = Len(ts)
       /\ \A k \in 1..Len(ts) :
            LET bar == gantt.bars[k]
                s == DateValue(doc[ts[k].lineNumber], StartName)
            IN /\ bar.lineNumber = ts[k].lineNumber
               /\ bar.sIdx # {} /\ bar.sIdx \subseteq 0..29
               /\ bar.eIdx # {} /\ bar.eIdx \subseteq 0..29
               /\ s # <<>> => bar.sIdx = {WindowIndex(s, gantt.startWindow)}
               /\ bar.width >= widthPerDay
               /\ bar.placed

\* what renderGantt does give every bar: a width of at least one day, day
\* indices in 0..29 where they are numbers, a left position exactly when the
\* start index is a number
C16_DatedBarsAreClamped ==
  FreshGantt =>
    \A k \in 1..Len(gantt.bars) :
      LET bar == gantt.bars[k]
      IN /\ bar.width >= widthPerDay
         /\ bar.sIdx \subseteq 0..29
         /\ bar.eIdx \subseteq 0..29
         /\ bar.placed <=> bar.sIdx # {}


\* the calendar date that the instant t has in a zone tz hours east of UTC
localDate(t, tz) == toISODate(t + tz)

\* line with the value of the name: token at index i replaced by the date d
FieldReplacedAt(line, name, i, d) ==
  SubSeq(line, 1, i + Len(name)) \o d \o From(line, i + Len(name) + 11)

\* the lines that carry name:d in place of the name: token of line when the
\* parser reads one there, and otherwise name:d appended to line (or put in
\* place of a date that follows the letters "name:" inside a longer word)
WithField(line, name, d) ==
  IF boundedFieldMatches(line, name) # {}
  THEN {FieldReplacedAt(line, name, i, d) : i \in boundedFieldMatches(line, name)}
  ELSE {line \o sep \o name \o <<":">> \o d : sep \in {<<>>, <<" ">>}}
       \cup {FieldReplacedAt(line, name, i, d) : i \in fieldMatches(line, name)}

\* C17: the drop of a dragged bar rewrites the bar's line, and no other, so
\* that start: is the day of the window under the bar's snapped left edge and
\* due: the day under its snapped right edge, each put where the line had the
\* field and appended when it had none
C17_DropWritesSnappedDates ==
  op.name = "updateTaskDatesAtLine" =>
    \E k \in 1..Len(gantt.bars) :
      LET bar == gantt.bars[k]
          startIdx == roundDiv(bar.left, widthPerDay)
          endIdx == roundDiv(bar.left + bar.width, widthPerDay)
          s == localDate(gantt.startWindow + startIdx * dayMs, gantt.zone)
          e == localDate(gantt.startWindow + endIdx * dayMs, gantt.zone)
      IN /\ bar.lineNumber = op.line
         /\ \E l1 \in WithField(prev[op.line], StartName, s) :
            \E l2 \in WithField(l1, DueName, e) :
              doc = [prev EXCEPT ![op.line] = l2]


\* C18: every board that shows is the rendering of the document as it is
\* now: the cards are those of a fresh parse, and the bars hold, in order, the
\* line numbers of the tasks of a fresh parse
C18_VisibleBoardsAreFresh ==
  /\ showingKanban => cards = renderKanban(doc, kanbanFilters)
  /\ showingGantt =>
       LET ts == parseTasks(doc)
       IN /\ Len(gantt.bars) = Len(ts)
          /\ \A k \in 1..Len(ts) : gantt.bars[k].lineNumber = ts[k].lineNumber


(***************************************************************************)
(* Saving: saveFile in the editor, the gateway file-handler.php            *)
(***************************************************************************)
\* a document that is cut off after its first line
getValueFirstLine(lines) == lines[1]

\* editor.getModel().getValue(): the lines joined by line feeds
RECURSIVE getValue(_)
getValue(lines) ==
  IF Len(lines) = 1 THEN lines[1]
  ELSE lines[1] \o <<"\n">> \o getValue(Tail(lines))

\* the characters JSON.stringify writes between the quotes of a string
RECURSIVE jsonQuote(_)
jsonQuote(s) ==
  IF s = <<>> THEN <<>>
  ELSE LET c == Head(s)
           e == IF c = "\"" THEN <<"\\", "\"">>
                ELSE IF c = "\\" THEN <<"\\", "\\">>
                ELSE IF c = "\n" THEN <<"\\", "n">>
                ELSE IF c = "\t" THEN <<"\\", "t">>
                ELSE <<c>>
       IN e \o jsonQuote(Tail(s))

\* the string json_decode reads from the characters between the quotes
RECURSIVE jsonUnquote(_)
jsonUnquote(s) ==
  IF s = <<>> THEN <<>>
  ELSE IF Head(s) = "\\" /\ Len(s) >= 2
  THEN LET c == s[2]
           d == IF c = "n" THEN "\n" ELSE IF c = "t" THEN "\t" ELSE c
       IN <<d>> \o jsonUnquote(From(s, 3))
  ELSE <<Head(s)>> \o jsonUnquote(Tail(s))

currentFile == "todo.md"

\* the body of the request saveFile sends
saveBody(lines) ==
  [action |-> "save", filename |-> currentFile,
   content |-> jsonQuote(getValue(lines))]

allowedFiles == {"todo.md", "README.md"}

\* 1MB limit of handleSave
sizeLimit == 1024 * 1024

\* backups cleanupBackups keeps
keptBackups == 5

\* cleanupBackups that keeps the oldest
cleanupBackupsOldest(backups) ==
  IF Cardinality(backups) > keptBackups
  THEN {b \in backups :
          Cardinality({c \in backups : c.at < b.at}) < keptBackups}
  ELSE backups

\* cleanupBackups: the backups that stay, the most recent by modification time
cleanupBackups(backups) ==
  IF Cardinality(backups) > keptBackups
  THEN {b \in backups :
          Cardinality({c \in backups : c.at > b.at}) < keptBackups}
  ELSE backups

Failure(code, error) == [success |-> FALSE, code |-> code, error |-> error]

\* an element of a content that stands for a run of fillerBytes bytes, so
\* that contents around the limit are short sequences
filler == "<run>"

fillerBytes == sizeLimit - 2

\* strlen that counts a run as one byte
strlenOfElements(content) == Len(content)

\* strlen($content): the number of bytes
strlen(content) ==
  Len(content)
    + (fillerBytes - 1) * Cardinality({i \in 1..Len(content) : content[i] = filler})

\* handleSave that reports success and leaves the file as it is
handleSaveKeepsFile(srv, content, fail) ==
  [server |-> srv, response |-> [success |-> TRUE, code |-> 200, error |-> ""]]

\* handleSave: the directory after the save, and the response.  fail names
\* the file operation that fails, "none" when all succeed.  A backup is named
\* after the second it is made in, so a second backup in the same second
\* takes the place of the first.
handleSave(srv, content, fail) ==
  IF strlen(content) > sizeLimit
  THEN [server |-> srv, response |-> Failure(500, "File too large (max 1MB)")]
  ELSE IF srv.file # Null /\ fail = "copy"
  THEN [server |-> srv, response |-> Failure(500, "Failed to create backup")]
  ELSE LET made == {b \in srv.backups : b.at # srv.clock}
                     \cup {[at |-> srv.clock, content |-> srv.file]}
           backed == IF srv.file # Null
                     THEN [srv EXCEPT !.backups = cleanupBackups(made)]
                     ELSE srv
       IN IF fail = "write"
          THEN [server |-> backed,
                response |-> Failure(500, "Failed to write temporary file")]
          ELSE IF fail = "rename"
          THEN [server |-> backed,
                response |-> Failure(500, "Failed to move temporary file")]
          ELSE [server |-> [backed EXCEPT !.file = content],
                response |-> [success |-> TRUE, code |-> 200, error |-> ""]]

\* handleLoad on the state of one path: a missing file is created empty
\* (the result of that write is not looked at), an existing one is read
handleLoad(srv, fail) ==
  IF srv.file = Null
  THEN [server |-> IF fail = "write" THEN srv ELSE [srv EXCEPT !.file = <<>>],
        response |-> [success |-> TRUE, code |-> 200, error |-> "", content |-> <<>>]]
  ELSE IF fail = "read"
  THEN [server |-> srv, response |-> Failure(500, "Failed to read file")]
  ELSE [server |-> srv,
        response |-> [success |-> TRUE, code |-> 200, error |-> "",
                      content |-> srv.file]]

\* file-handler.php for a request with a JSON body that has an action
gateway(srv, body, fail) ==
  IF body.filename \notin allowedFiles
  THEN [server |-> srv, response |-> Failure(403, "File not allowed")]
  ELSE IF body.action = "save"
  THEN handleSave(srv, jsonUnquote(body.content), fail)
  ELSE IF body.action = "load"
  THEN handleLoad(srv, fail)
  ELSE [server |-> srv, response |-> Failure(400, "Unknown action")]

(***************************************************************************)
(* Save specification: saves of a bounded document that is edited once     *)
(* before, between or after them; the gateway handles the requests in      *)
(* flight in any order                                                     *)
(***************************************************************************)
\* longest document of the save specification
MaxSaveLines == 2

\* number of saves in a behaviour
MaxSaves == 2

\* seconds on the gateway's clock
MaxClock == 1

\* lines of the saved documents: a task, a task with quotes, a backslash
\* followed by n and a tab
SaveLines ==
  {<<"-", " ", "[", " ", "]", " ", "a">>,
   <<"-", " ", "[", "x", "]", " ", "\"", "b", "\\", "n", "\"", "\t">>}

\* outcomes of the file operations of handleSave: all succeed, or the write
\* of the temporary file fails
Failures == {"none", "write"}

\* outcomes of the file operations of handleLoad: all succeed, or the read
\* of the file fails
LoadFailures == {"none", "read"}

InitSave ==
  /\ doc \in AllDocs(SaveLines, MaxSaveLines)
  /\ InitCommon

requests == {m \in network : m.kind = "request"}

\* saveFile(): the request leaves with the text the document has now; id and
\* doc are history (the order of the calls, the document at the call)
SaveFile ==
  /\ Len(server.log) + Cardinality(requests) < MaxSaves
  /\ network' = network \cup
       {[kind |-> "request", id |-> Len(server.log) + Cardinality(requests) + 1,
         body |-> saveBody(doc), doc |-> doc]}
  /\ UNCHANGED <<doc, kanbanDisplay, kanbanFilters, cards, tasks, gantt, server,
                 prev, op>>

\* the gateway takes one of the requests in flight, in the second of the
\* last request or a later one, and answers it
GatewayHandle ==
  /\ \E m \in requests, fail \in Failures \cup LoadFailures,
        now \in server.clock..Min(server.clock + 1, MaxClock) :
       LET r == gateway([server EXCEPT !.clock = now], m.body, fail)
       IN /\ fail \in IF m.body.action = "load" THEN LoadFailures ELSE Failures
          /\ server' = [r.server EXCEPT !.log =
               Append(@, [id |-> m.id, success |-> r.response.success, doc |-> m.doc])]
          /\ network' = (network \ {m})
               \cup {[kind |-> "response", id |-> m.id, action |-> m.body.action,
                      body |-> r.response]}
  /\ UNCHANGED <<doc, kanbanDisplay, kanbanFilters, cards, tasks, gantt, prev, op>>

\* the response to a save reaches the editor: a status message, nothing
\* else
SaveResponse ==
  /\ \E m \in network \ requests :
       /\ m.action = "save"
       /\ network' = network \ {m}
  /\ UNCHANGED <<doc, kanbanDisplay, kanbanFilters, cards, tasks, gantt, server,
                 prev, op>>

NextSave ==
  \/ SaveFile
  \/ CmdToggleTaskStatus
  \/ GatewayHandle
  \/ SaveResponse

SpecSave == InitSave /\ [][NextSave]_vars

(***************************************************************************)
(* Properties of saving                                                    *)
(***************************************************************************)
\* the text of a document: its lines, a line feed between each two
RECURSIVE TextOf(_)
TextOf(lines) ==
  IF Len(lines) = 1 THEN lines[1]
  ELSE TextOf(SubSeq(lines, 1, Len(lines) - 1)) \o <<"\n">> \o lines[Len(lines)]

\* C19: every save request in flight carries, as the server will read it, the
\* whole text the document had when saveFile was called, whatever has been
\* edited since
C19_RequestCarriesDocumentAtCall ==
  \A m \in requests :
    /\ m.body.action = "save"
    /\ jsonUnquote(m.body.content) = TextOf(m.doc)

\* a request is in flight for a document of two lines that has been edited
\* since the call
C19_Witness ==
  \E m \in requests : Len(m.doc) = 2 /\ m.doc # doc

\* the saves the gateway has carried out, by their place in the log
Stored == {i \in 1..Len(server.log) : server.log[i].success}

StatusDropLines ==
  {<<"-", " ", "[", " ", "]", " ", "b", "u", "y", " ", "m", "i", "l", "k", " ", "+", "g", "r", "o", "c", "e", "r", "y", " ", "d", "u", "e", ":", "2", "0", "2", "5", "-", "0", "1", "-", "2", "0", " ", "(", "a", ")">>,
   <<"*", " ", "[", "/", "]", " ", "+", "b", " ", "+", "a", " ", "+", "b", " ", "(", "c", ")", "(", "b", ")", " ", "d", "u", "e", ":", "2", "0", "2", "5", "-", "0", "1", "-", "0", "3", " ", "d", "u", "e", ":", "2", "0", "2", "5", "-", "0", "1", "-", "0", "4", " ", "s", "t", "a", "r", "t", ":", "2", "0", "2", "5", "-", "0", "1", "-", "0", "2">>,
   <<"+", " ", "[", "x", "]", " ", "x", "d", "u", "e", ":", "2", "0", "2", "5", "-", "0", "1", "-", "0", "5", " ", "a", "+", "b", " ", "c", "+", " ", "(", "d", ")">>}

InitStatus ==
  /\ doc \in AllDocs(StatusDropLines, MaxRecordLines)
  /\ InitCommon

NextStatus ==
  \/ ToggleKanbanView
  \/ KanbanDrop

SpecStatus == InitStatus /\ [][NextStatus]_vars

\* C26: after a drop of the card of line n onto column S, a fresh parse
\* reports the task of line n with status S and everything else as the parse
\* before the drop did, and every other task as before
C26_StatusRoundTrip ==
  op.name = "drop" =>
    LET before == parseTasks(prev)
        after == parseTasks(doc)
    IN /\ Len(after) = Len(before)
       /\ \A k \in 1..Len(before) :
            after[k] = IF before[k].lineNumber = op.line
                       THEN [before[k] EXCEPT !.status = op.status]
                       ELSE before[k]

\* a drop changed the status of a task with another bullet than '-' that has
\* tags, priorities, a start and a due field, next to a second task
C26_Witness ==
  /\ op.name = "drop"
  /\ doc # prev
  /\ Len(parseTasks(prev)) = 2
  /\ prev[op.line][1] = "*"
  /\ \E k \in 1..2 :
       LET t == parseTasks(prev)[k]
       IN /\ t.lineNumber = op.line
          /\ t.tags # <<>> /\ t.due # Null /\ t.start # Null /\ t.priority # Null

\* the task a parse of lines reports for line n; none of the lines may be
\* asked for that is not a task
TaskAtLine(lines, n) ==
  LET ts == parseTasks(lines)
  IN ts[CHOOSE k \in 1..Len(ts) : ts[k].lineNumber = n]

\* C27: after updateTaskDatesAtLine(n, s, e) a fresh parse reports the task
\* of line n with start s and due e, and the line has one start: field and
\* one due: field that the parser reads
C27_DatesRoundTrip ==
  op.name = "updateTaskDatesAtLine" =>
    LET t == TaskAtLine(doc, op.line)
    IN /\ t.start = StartName \o <<":">> \o op.start
       /\ t.due = DueColon \o op.due
       /\ Cardinality(boundedFieldMatches(t.text, StartName)) = 1
       /\ Cardinality(boundedFieldMatches(t.text, DueName)) = 1

\* C28: the task added through the dialog under the heading of line h is
\* reported by a fresh parse as a backlog task with the title of that heading
\* as its heading and with the color that holds at that heading
C28_InsertedTaskBelongsToHeading ==
  (op.name = "insertTaskUnderHeading" /\ IsHeadingLine(prev[op.line]))
  => \E k \in 1..Len(parseTasks(doc)) :
       LET t == parseTasks(doc)[k]
       IN /\ doc[t.lineNumber] = NewTaskLine(op.text, op.start, op.due)
          /\ t.status = "backlog"
          /\ t.heading = TitleOfHeading(prev[op.line])
          /\ t.color = InheritedColorAt(prev, op.line + 1)

\* the document of an Enter on line n without the line break Enter typed
WithoutLineBreak(lines, n) ==
  SubSeq(lines, 1, n - 1) \o <<lines[n] \o lines[n + 1]>> \o From(lines, n + 2)

\* C29: Enter on a heading without color, which appends the color the handler
\* resolves, leaves every task of a fresh parse with the heading and the
\* color it had (the heading is read across the line break that Enter types)
C29_AppendedColorIsTheInheritedOne ==
  (op.name = "newTaskLine" /\ op.edits = 1) =>
    LET before == parseTasks(prev)
        after == parseTasks(WithoutLineBreak(doc, op.line))
    IN /\ Len(after) = Len(before)
       /\ \A k \in 1..Len(before) :
            /\ after[k].color = before[k].color
            /\ after[k].heading = before[k].heading

\* C30: a drag that ends where it began leaves the document as it was
C30_ZeroDragKeepsDocument ==
  (op.name = "updateTaskDatesAtLine" /\ gantt.dx = 0) => doc = prev


(***************************************************************************)
(* The gateway as a whole: file-handler.php for any request                *)
(***************************************************************************)
\* a value of the decoded JSON body: its type, and its conversion to string
jsonString(s) == [type |-> "string", value |-> s]

jsonTrue == [type |-> "boolean", value |-> "1"]

jsonInt(s) == [type |-> "integer", value |-> s]

\* a field the body does not have
jsonAbsent == [type |-> "absent", value |-> ""]

\* (int) $s for a file name: names that do not begin with a digit give 0
intval(s) == IF s \in {"0", "1"} THEN s ELSE "0"

\* $v == $s of PHP for a string $s that is not numeric, not '' and not '0'.
\* php8 tells the comparison of a number with a string apart: from PHP 8 on
\* the number is compared as a string, before it the string as a number.
looseEquals(v, s, php8) ==
  CASE v.type = "string" -> v.value = s
    [] v.type = "boolean" -> v.value = "1"
    [] v.type = "integer" -> IF php8 THEN v.value = s ELSE v.value = intval(s)
    [] OTHER -> FALSE

\* in_array($needle, $haystack), not strict
in_array(needle, haystack, php8) ==
  \E s \in haystack : looseEquals(needle, s, php8)

\* in_array($needle, $haystack, true)
in_arrayStrict(needle, haystack, php8) ==
  needle.type = "string" /\ needle.value \in haystack

\* the state of one path of the directory, as handleLoad and handleSave see it
atPath(srv, path) ==
  [file |-> srv.dirs[path].file, backups |-> srv.dirs[path].backups,
   clock |-> srv.clock, log |-> srv.log]

\* the directory after a handler has run on one path
withPath(srv, path, r) ==
  [server |-> [srv EXCEPT !.dirs[path] =
                 [file |-> r.server.file, backups |-> r.server.backups]],
   response |-> r.response]

\* the name the request asks for: 'todo.md' when it names none
filenameOf(body) ==
  IF body.filename = jsonAbsent THEN jsonString("todo.md") ELSE body.filename

\* $filePath, without the directory: the name converted to a string
filePathOf(body) == filenameOf(body).value

\* file-handler.php, the whole script.  body is the request: its method,
\* whether its text decodes to a non-empty array, and the fields action,
\* filename and content (Null when the body has none)
fileHandler(srv, body, fail, php8) ==
  IF body.method # "POST"
  THEN [server |-> srv, response |-> Failure(405, "Method not allowed")]
  ELSE IF ~body.valid
  THEN [server |-> srv, response |-> Failure(400, "Invalid JSON")]
  ELSE IF body.action = jsonAbsent
  THEN [server |-> srv, response |-> Failure(400, "Action required")]
  ELSE IF ~in_array(filenameOf(body), allowedFiles, php8)
  THEN [server |-> srv, response |-> Failure(403, "File not allowed")]
  ELSE IF body.action = jsonString("load")
  THEN withPath(srv, filePathOf(body), handleLoad(atPath(srv, filePathOf(body)), fail))
  ELSE IF body.action = jsonString("save")
  THEN IF body.content = Null
       THEN [server |-> srv, response |-> Failure(400, "Content required for save")]
       ELSE withPath(srv, filePathOf(body),
                     handleSave(atPath(srv, filePathOf(body)), body.content, fail))
  ELSE [server |-> srv, response |-> Failure(400, "Unknown action")]

(***************************************************************************)
(* Gateway specification: a bounded number of requests of any client,      *)
(* answered one after the other                                            *)
(***************************************************************************)
\* requests in a behaviour
MaxExchanges == 2

\* names the requests ask for
Filenames ==
  {jsonString("todo.md"), jsonString("README.md"), jsonString("notes.md"),
   jsonTrue, jsonInt("0"), jsonAbsent}

\* contents the requests carry: a short one, one of exactly 1 MiB, one of
\* one byte more, none
Contents ==
  {<<"a">>, <<filler, "a", "b">>, <<filler, "a", "b", "c">>, Null}

Actions == {jsonString("load"), jsonString("save"), jsonString("delete"), jsonAbsent}

Requests ==
  {[method |-> "GET", valid |-> TRUE, action |-> jsonString("load"),
    filename |-> jsonAbsent, content |-> Null],
   [method |-> "POST", valid |-> FALSE, action |-> jsonAbsent,
    filename |-> jsonAbsent, content |-> Null]}
  \cup [method : {"POST"}, valid : {TRUE}, action : Actions,
        filename : Filenames, content : Contents]

\* paths of the directory
Paths == {v.value : v \in Filenames \ {jsonAbsent}}

\* outcomes of the file operations of a request: all succeed, or the one
\* named fails
GatewayFailures == {"none", "copy", "write", "rename", "read"}

\* the directory of a fresh deployment: todo.md is there, empty
NewDirectory ==
  [dirs |-> [p \in Paths |->
               [file |-> IF p = "todo.md" THEN <<>> ELSE Null, backups |-> {}]],
   clock |-> 0, log |-> <<>>]

InitGateway ==
  /\ doc = <<>>
  /\ kanbanDisplay = ""
  /\ kanbanFilters = NoFilters
  /\ cards = <<>>
  /\ tasks = <<>>
  /\ gantt = NoGantt
  /\ network = {}
  /\ server = NewDirectory
  /\ prev = <<>>
  /\ op = NoOp

\* one request is answered, all in the same second.  The message in flight
\* is the response; its fields request and before are history (what was
\* asked, the directory it was asked of), the log counts the requests
GatewayExchange ==
  /\ Len(server.log) < MaxExchanges
  /\ \E body \in Requests, fail \in GatewayFailures, php8 \in BOOLEAN :
       LET r == fileHandler(server, body, fail, php8)
       IN /\ server' = [r.server EXCEPT !.log = Append(@, r.response.success)]
          /\ network' = {[kind |-> "response", id |-> Len(server.log) + 1,
                          body |-> r.response, request |-> body,
                          before |-> server.dirs]}
  /\ UNCHANGED <<doc, kanbanDisplay, kanbanFilters, cards, tasks, gantt, prev, op>>

NextGateway == GatewayExchange

SpecGateway == InitGateway /\ [][NextGateway]_vars

(***************************************************************************)
(* Properties of the gateway                                               *)
(***************************************************************************)
\* C21: a request for a name that is not todo.md or README.md is answered
\* with an error, and the directory is as it was
C21_OnlyAllowedNamesAreServed ==
  \A m \in network :
    (/\ m.request.method = "POST"
     /\ m.request.valid
     /\ m.request.filename # jsonAbsent
     /\ m.request.filename \notin {jsonString("todo.md"), jsonString("README.md")})
      => /\ ~m.body.success
         /\ server.dirs = m.before

\* the responses of handleSave and handleLoad to a file operation that failed
IOFailures ==
  {Failure(500, e) : e \in {"Failed to create backup", "Failed to write temporary file",
                            "Failed to move temporary file", "Failed to read file"}}

\* the size of a content in bytes, a run counted with all its bytes
ByteCount(content) ==
  Len(content) + (sizeLimit - 3) * Cardinality({i \in DOMAIN content : content[i] = filler})

\* the exchange m is a save that the gateway handed to handleSave
ReachedHandleSave(m) ==
  /\ m.request.method = "POST"
  /\ m.request.valid
  /\ m.request.action = jsonString("save")
  /\ m.request.content # Null
  /\ m.body.code # 403

\* C22: content of more than 1 MiB is refused with an error that is not the
\* error of a failed file operation, and file and backups stay; content of
\* at most 1 MiB is stored as it is
C22_TooLargeIsRefusedNothingTruncated ==
  \A m \in network :
    ReachedHandleSave(m) =>
      IF ByteCount(m.request.content) > 1048576
      THEN /\ ~m.body.success
           /\ m.body.error = "File too large (max 1MB)"
           /\ m.body \notin IOFailures
           /\ server.dirs = m.before
      ELSE m.body.success =>
             server.dirs[filePathOf(m.request)].file = m.request.content

\* a refused save of 1 MiB and one byte, and a stored save of exactly 1 MiB
C22_Witness ==
  /\ \E m \in network :
       /\ ReachedHandleSave(m)
       /\ ByteCount(m.request.content) = 1048576
       /\ m.body.success
  /\ Len(server.log) = 2
  /\ ~server.log[1]
  /\ \E p \in Paths : server.dirs[p].file = <<filler, "a", "b">>


(***************************************************************************)
(* Backup specification: saves of one file, one after the other, over      *)
(* enough seconds for more backups than are kept                           *)
(***************************************************************************)
\* seconds on the gateway's clock in the backup specification
MaxBackupClock == 6

BackupContents == {<<"a">>, <<"b">>}

\* outcomes of the file operations of handleSave
BackupFailures == {"none", "copy", "write"}

InitBackups ==
  /\ doc = <<>>
  /\ InitCommon

\* handleSave runs, in the second of the last save or the next.  op is
\* history: the outcome, the content, and the number of backups that
\* cleanupBackups removed
BackupSave ==
  /\ \E content \in BackupContents, fail \in BackupFailures,
        now \in server.clock..Min(server.clock + 1, MaxBackupClock) :
       LET r == handleSave([server EXCEPT !.clock = now], content, fail)
           names == {b.at : b \in server.backups} \cup {now}
           kept == {b.at : b \in r.server.backups}
       IN /\ server' = r.server
          /\ op' = Op("handleSave", 0,
                      IF r.response.success THEN "success" ELSE "error", content,
                      <<>>, <<>>,
                      IF r.server.backups = server.backups
                      THEN 0 ELSE Cardinality(names \ kept))
  /\ UNCHANGED <<doc, kanbanDisplay, kanbanFilters, cards, tasks, gantt, network,
                 prev>>

NextBackups == BackupSave

SpecBackups == InitBackups /\ [][NextBackups]_vars

\* C23: a save that overwrites the file has copied it first, and after a
\* save at most 5 backups exist, none of them older than one that is gone
C23_BackupFirstAndFiveNewestKept ==
  [][op'.name = "handleSave" =>
       /\ (op'.status = "success" /\ server.file # Null) =>
            \E b \in server'.backups :
              b.at = server'.clock /\ b.content = server.file
       /\ Cardinality(server'.backups) <= 5
       /\ \A b \in server.backups, k \in server'.backups :
            (\A c \in server'.backups : c.at # b.at) => b.at < k.at]_vars

\* the sixth backup has been made and the oldest removed
C23_Witness ==
  /\ op.name = "handleSave"
  /\ op.status = "success"
  /\ op.edits = 1
  /\ Cardinality(server.backups) = 5


(***************************************************************************)
(* Atomicity specification: handleSave step by step, run by a bounded      *)
(* number of requests at the same time                                     *)
(***************************************************************************)
\* requests that save at the same time
MaxWriters == 2

Writers == 1..MaxWriters

\* values uniqid() returns: the time in microseconds, which two requests
\* can share
Uniqids == {1, 2}

\* contents of two bytes, so that a part of one is none of them
AtomicContents == {<<"a", "b">>, <<"c", "d">>}

\* a request that has not arrived
IdleWriter ==
  [pc |-> "idle", content |-> <<>>, tempPath |-> 0, fd |-> "none",
   failed |-> FALSE, response |-> ""]

\* file, backups and temporary files of todo.md, and the requests.  Of a
\* request: the line it is at (pc), $content, $tempPath (0 when not set),
\* the file its open descriptor writes to, and as history whether one of
\* its file operations failed
NewAtomicServer ==
  [file |-> <<>>, backups |-> {}, clock |-> 0, log |-> <<>>,
   temps |-> [u \in Uniqids |-> Null], procs |-> [i \in Writers |-> IdleWriter]]

InitAtomic ==
  /\ doc = <<>>
  /\ kanbanDisplay = ""
  /\ kanbanFilters = NoFilters
  /\ cards = <<>>
  /\ tasks = <<>>
  /\ gantt = NoGantt
  /\ network = {}
  /\ server = NewAtomicServer
  /\ prev = <<>>
  /\ op = NoOp

\* the descriptors of the other requests after the temporary file u was
\* renamed or unlinked: a descriptor open on it follows the file (to) 
redirect(procs, i, u, to) ==
  [j \in DOMAIN procs |->
     IF j # i /\ procs[j].tempPath = u /\ procs[j].fd = "temp"
     THEN [procs[j] EXCEPT !.fd = to]
     ELSE IF to = "file" /\ procs[j].fd = "file"
     THEN [procs[j] EXCEPT !.fd = "gone"]
     ELSE procs[j]]

AtomicUnchanged ==
  UNCHANGED <<doc, kanbanDisplay, kanbanFilters, cards, tasks, gantt, network,
              prev, op>>

\* handleSave is called with a content within the limit
SaveStart(i) ==
  /\ server.procs[i].pc = "idle"
  /\ \E content \in AtomicContents :
       server' = [server EXCEPT !.procs[i].pc = "backup",
                                !.procs[i].content = content]
  /\ AtomicUnchanged

\* the backup and cleanupBackups
SaveBackup(i) ==
  /\ server.procs[i].pc = "backup"
  /\ \/ /\ server.file = Null
        /\ server' = [server EXCEPT !.procs[i].pc = "write"]
     \/ /\ server.file # Null
        /\ server' = [server EXCEPT
             !.backups = cleanupBackups(
                {b \in @ : b.at # server.clock}
                  \cup {[at |-> server.clock, content |-> server.file]}),
             !.procs[i].pc = "write"]
     \/ /\ server.file # Null
        /\ server' = [server EXCEPT !.procs[i].pc = "catch",
                                    !.procs[i].failed = TRUE]
  /\ AtomicUnchanged

\* $tempPath is set and file_put_contents opens it, waits for the lock,
\* truncates the file and writes the first byte; or the open fails
SaveOpenTemp(i) ==
  /\ server.procs[i].pc = "write"
  /\ \E u \in Uniqids :
       \/ /\ \A j \in Writers : ~(server.procs[j].pc = "writing"
                                   /\ server.procs[j].tempPath = u
                                   /\ server.procs[j].fd = "temp")
          /\ server' = [server EXCEPT
               !.temps[u] = SubSeq(server.procs[i].content, 1, 1),
               !.procs[i].pc = "writing",
               !.procs[i].tempPath = u,
               !.procs[i].fd = "temp"]
       \/ server' = [server EXCEPT !.procs[i].pc = "catch",
                                   !.procs[i].tempPath = u,
                                   !.procs[i].failed = TRUE]
  /\ AtomicUnchanged

\* file_put_contents writes the rest through its descriptor and returns, or
\* stops short and returns false
SaveFinishWrite(i) ==
  /\ server.procs[i].pc = "writing"
  /\ LET p == server.procs[i]
     IN \/ server' = [server EXCEPT
               !.temps[p.tempPath] = IF p.fd = "temp" THEN p.content ELSE @,
               !.file = IF p.fd = "file" THEN p.content ELSE @,
               !.procs[i].pc = "rename",
               !.procs[i].fd = "none"]
        \/ server' = [server EXCEPT !.procs[i].pc = "catch",
                                    !.procs[i].fd = "none",
                                    !.procs[i].failed = TRUE]
  /\ AtomicUnchanged

\* rename($tempPath, $filePath), and unlink($tempPath) when it fails
SaveRename(i) ==
  /\ server.procs[i].pc = "rename"
  /\ LET u == server.procs[i].tempPath
     IN \/ /\ server.temps[u] # Null
           /\ server' = [server EXCEPT
                !.file = server.temps[u],
                !.temps[u] = Null,
                !.procs = [redirect(@, i, u, "file") EXCEPT ![i].pc = "chmod"]]
        \/ server' = [server EXCEPT
                !.temps[u] = Null,
                !.procs = [redirect(@, i, u, "gone") EXCEPT
                              ![i].pc = "catch", ![i].failed = TRUE]]
  /\ AtomicUnchanged

\* chmod($filePath, 0644), whose result is not looked at, and the response
SaveChmod(i) ==
  /\ server.procs[i].pc = "chmod"
  /\ \E ok \in BOOLEAN :
       server' = [server EXCEPT !.procs[i].pc = "done",
                                !.procs[i].failed = ~ok,
                                !.procs[i].response = "success"]
  /\ AtomicUnchanged

\* the catch block: the temporary file is removed if $tempPath is set and
\* the file exists, and the error is the response
SaveCatch(i) ==
  /\ server.procs[i].pc = "catch"
  /\ LET u == server.procs[i].tempPath
     IN IF u # 0 /\ server.temps[u] # Null
        THEN server' = [server EXCEPT
               !.temps[u] = Null,
               !.procs = [redirect(@, i, u, "gone") EXCEPT
                            ![i].pc = "done", ![i].response = "error"]]
        ELSE server' = [server EXCEPT !.procs[i].pc = "done",
                                      !.procs[i].response = "error"]
  /\ AtomicUnchanged

NextAtomic ==
  \E i \in Writers :
    \/ SaveStart(i)
    \/ SaveBackup(i)
    \/ SaveOpenTemp(i)
    \/ SaveFinishWrite(i)
    \/ SaveRename(i)
    \/ SaveChmod(i)
    \/ SaveCatch(i)

SpecAtomic == InitAtomic /\ [][NextAtomic]_vars

\* the stored file is whole: the first content or the content of a request
C24_FileIsWhole ==
  server.file \in AtomicContents \cup {<<>>}

\* a save that is over and had a failing step has answered with an error
C24_FailureIsReported ==
  \A i \in Writers :
    (server.procs[i].pc = "done" /\ server.procs[i].failed)
      => server.procs[i].response = "error"

\* a save that answered with an error, alone, has left the file as it was
C24_FailedSaveKeepsFile ==
  (\E i \in Writers :
     /\ server.procs[i].response = "error"
     /\ \A j \in Writers \ {i} : server.procs[j].pc = "idle")
    => server.file = <<>>

\* when no save is running, no temporary file exists
C24_NoTempLeft ==
  (\A i \in Writers : server.procs[i].pc \in {"idle", "done"})
    => \A u \in Uniqids : server.temps[u] = Null

\* C24: saves are atomic: the stored file is whole at every point, and a
\* save with a failing step answers with an error, keeps the file and
\* leaves no temporary file
C24_SavesAreAtomic ==
  /\ C24_FileIsWhole
  /\ C24_FailureIsReported
  /\ C24_FailedSaveKeepsFile
  /\ C24_NoTempLeft


(***************************************************************************)
(* Load specification: loads and saves of the editor, answered by the      *)
(* gateway with success or failure, or lost on the way                     *)
(***************************************************************************)
\* requests in flight or answered in a behaviour of the load specification
MaxLoads == 2

\* the body of the request loadFile sends
loadBody == [action |-> "load", filename |-> currentFile]

\* model.setValue(text): the lines of the text, broken at \n, \r\n and \r
RECURSIVE setValue(_)
setValue(text) ==
  LET breaks == {i \in 1..Len(text) : text[i] \in {"\n", "\r"}}
  IN IF breaks = {}
     THEN <<text>>
     ELSE LET i == CHOOSE b \in breaks : \A c \in breaks : b <= c
              crlf == text[i] = "\r" /\ i < Len(text) /\ text[i + 1] = "\n"
          IN <<SubSeq(text, 1, i - 1)>>
               \o setValue(From(text, IF crlf THEN i + 2 ELSE i + 1))

\* echo json_encode(...) of the gateway and response.json() of the editor
responseJson(body) ==
  IF body.success
  THEN [body EXCEPT !.content = jsonUnquote(jsonQuote(@))]
  ELSE body

\* the document after the response that clears it on failure
loadThenClears(lines, data) ==
  IF data.success THEN setValue(data.content) ELSE <<>>

\* the document after .then(data => ...) of loadFile
loadThen(lines, data) ==
  IF data.success THEN setValue(data.content) ELSE lines

\* contents of todo.md on the server before the first request
LoadFiles ==
  {<<>>,
   <<"-", " ", "[", "/", "]", " ", "c", "\n", "\n", "#", " ", "H">>}

\* documents of the editor before the first request: of no line or one
LoadDocs == AllDocs(SaveLines, 1)

InitLoad ==
  /\ doc \in LoadDocs
  /\ InitCommon
  /\ \E f \in LoadFiles : server = [NewServer EXCEPT !.file = f]

\* loadFile(): the request leaves; id and doc are history
LoadFile ==
  /\ Len(server.log) + Cardinality(requests) < MaxLoads
  /\ network' = network \cup
       {[kind |-> "request", id |-> Len(server.log) + Cardinality(requests) + 1,
         body |-> loadBody, doc |-> doc]}
  /\ UNCHANGED <<doc, kanbanDisplay, kanbanFilters, cards, tasks, gantt, server,
                 prev, op>>

\* saveFile() of the load specification
SaveFileAgain ==
  /\ Len(server.log) + Cardinality(requests) < MaxLoads
  /\ network' = network \cup
       {[kind |-> "request", id |-> Len(server.log) + Cardinality(requests) + 1,
         body |-> saveBody(doc), doc |-> doc]}
  /\ UNCHANGED <<doc, kanbanDisplay, kanbanFilters, cards, tasks, gantt, server,
                 prev, op>>

\* the response to a load reaches the editor: on success the model gets
\* the content and its listener runs, on failure a status message is shown.
\* op is history: the outcome and the content of the response
LoadResponse ==
  /\ \E m \in network \ requests :
       /\ m.action = "load"
       /\ LET data == responseJson(m.body)
          IN /\ doc' = loadThen(doc, data)
             /\ op' = Op("loadFile", 0,
                         IF data.success THEN "success" ELSE "error",
                         IF data.success THEN data.content ELSE <<>>,
                         <<>>, <<>>, 0)
             /\ cards' = IF data.success THEN onDidChangeContent(doc') ELSE cards
       /\ network' = network \ {m}
  /\ prev' = doc
  /\ UNCHANGED <<kanbanDisplay, kanbanFilters, tasks, gantt, server>>

\* the request or its response is lost, or the response is not JSON: the
\* promise is rejected and .catch shows a status message
FetchFails ==
  /\ \E m \in network : network' = network \ {m}
  /\ UNCHANGED <<doc, kanbanDisplay, kanbanFilters, cards, tasks, gantt, server,
                 prev, op>>

NextLoad ==
  \/ LoadFile
  \/ SaveFileAgain
  \/ GatewayHandle
  \/ LoadResponse
  \/ SaveResponse
  \/ FetchFails

SpecLoad == InitLoad /\ [][NextLoad]_vars

\* a message that tells the editor of a failure when it leaves the network
\* without another taking its place: a response that reports failure, or a
\* request that is lost
ReportsFailure(m) ==
  \/ m.kind = "response" /\ ~m.body.success
  \/ m.kind = "request"

\* C25: a failed load or save, or a lost request, leaves the document as it
\* is and sends no request; the document changes only with a successful
\* load, and then to the lines of the content that came back
C25_ErrorsAreOnlyReported ==
  [][
     /\ (\E m \in network : ReportsFailure(m) /\ network' = network \ {m})
         => /\ doc' = doc
            /\ \A r \in network' : r.kind = "request" => r \in network
     /\ doc' # doc
         => \E m \in network \ network' :
              /\ m.kind = "response"
              /\ m.action = "load"
              /\ m.body.success
     /\ (op' # op /\ op'.name = "loadFile" /\ op'.status = "success")
         => TextOf(doc') = op'.text
  ]_vars

\* a load has failed on a document that has lines, after a load that
\* succeeded
C25_Witness ==
  /\ op.name = "loadFile"
  /\ op.status = "error"
  /\ doc # <<>>
  /\ doc = prev
  /\ Len(server.log) = 2
  /\ server.log[1].success

====
